---- MODULE Spec2Model ----
(***************************************************************************)
(* A model of the interactive prompt engine of src/src/lib/version.ts:     *)
(* the key decoder readKey and the four widgets select, input, rating and  *)
(* confirm, on their interactive path (raw mode, read/update/render loop)  *)
(* and on their fallback path (one line read through prompt()); and of the *)
(* block subcommands start, end and extend of src/src/commands/block.ts,   *)
(* each run as one invocation of the tool over the stored block files.     *)
(*                                                                         *)
(* Text is a sequence of UTF-16 code units (numbers); a chunk read from    *)
(* standard input is a sequence of bytes.                                  *)
(***************************************************************************)
EXTENDS Integers, Sequences, FiniteSets, TLC

VARIABLES
    pc,            \* "idle" | "prompt" | "await" | "key" | "returned" | "thrown" | "exited"
    widget,        \* the widget of the current (or last) call
    args,          \* the arguments of that call
    tty,           \* what Deno.stdin.isTerminal() answers
    loc,           \* the call's locals while it runs: selected (select), value
                   \* (input, rating, confirm)
    key,           \* the Key readKey() resolved to, while the turn of the loop that
                   \* handles it runs and after the call ended on it
    chunk,         \* the bytes of the read that produced key
    raw,           \* the terminal's raw-mode flag (Deno.stdin.setRaw)
    cursorHidden,  \* whether the last cursor-visibility sequence written was hideCursor
    ops,           \* terminal-affecting operations of the last step, in program order
    result,        \* the value returned, valid when pc = "returned"
    exitCode,      \* the status given to Deno.exit, -1 while the process runs
    ttyChecks,     \* calls of Deno.stdin.isTerminal() made by this call
    linesRead,     \* calls of prompt() made by this call
    line,          \* what the last prompt() of this call returned
    untouched,     \* history variable: the interactive call has handled no key yet
                   \* (at its end: none but the key that ended it)
    fold,          \* history variable: the specification's transition table
                   \* (SelectTable .. ConfirmTable below) folded over the keys handled
    split,         \* history variable: the chunk of the previous read when it was
                   \* the head of an arrow sequence (ESC, or ESC [) whose rest the
                   \* read being awaited or handled delivers; <<>> otherwise
    frame,         \* the widget state the last complete frame on the terminal was
                   \* rendered from, while the call is in its loop
    other,         \* a second interactive call that overlaps this one: the call
                   \* that was awaiting its first key when this one started
    blocks,        \* the stored block files of the experiment, by block id
    ran            \* the last invocation of the block command: its arguments,
                   \* its exit status and the block file it wrote

vars == <<pc, widget, args, tty, loc, key, chunk, raw, cursorHidden, ops,
          result, exitCode, ttyChecks, linesRead, line, untouched, fold, split,
          frame, other, blocks, ran>>

\* The state of the prompt engine, and the state of the block command.
widgetVars == <<pc, widget, args, tty, loc, key, chunk, raw, cursorHidden, ops,
                result, exitCode, ttyChecks, linesRead, line, untouched, fold,
                split, frame, other>>
blockVars == <<blocks, ran>>

----------------------------------------------------------------------------
(* Bounds of the model *)

MaxOptions == 3     \* select: options.length ranges over 0..MaxOptions
MaxRating == 3      \* rating: max ranges up to MaxRating
MaxText == 2        \* bytes in a chunk of text delivered by one read
MaxBuf == 2         \* input: code units the buffer may hold
MaxLine == 3        \* code units in a line answered to prompt()
MaxBlocks == 2      \* block files the experiment may hold
MaxExtend == 2      \* days by which a block may be extended in all

----------------------------------------------------------------------------
(* Key codes, lines 42-47 *)

CTRL_C == 3
ENTER == 13
ESCAPE == 27
BACKSPACE == 127
DEL == 8
BufSize == 8

----------------------------------------------------------------------------
(* JavaScript string primitives, on sequences of code units *)

Max(a, b) == IF a >= b THEN a ELSE b
Min(a, b) == IF a <= b THEN a ELSE b

\* White space as String.prototype.trim and parseInt skip it (the code units
\* below 256 among WhiteSpace and LineTerminator).
IsWhiteSpace(c) == c \in {9, 10, 11, 12, 13, 32, 160}

IsDigit(c) == c \in 48..57

RECURSIVE TrimStart(_)
TrimStart(s) ==
    IF s # <<>> /\ IsWhiteSpace(Head(s)) THEN TrimStart(Tail(s)) ELSE s

RECURSIVE TrimEnd(_)
TrimEnd(s) ==
    IF s # <<>> /\ IsWhiteSpace(s[Len(s)])
    THEN TrimEnd(SubSeq(s, 1, Len(s) - 1))
    ELSE s

\* String.prototype.trim
trim(s) == TrimEnd(TrimStart(s))

\* The value of the longest prefix of decimal digits of s, continuing acc.
RECURSIVE DigitsValue(_, _)
DigitsValue(s, acc) ==
    IF s # <<>> /\ IsDigit(Head(s))
    THEN DigitsValue(Tail(s), acc * 10 + (Head(s) - 48))
    ELSE acc

NaN == [nan |-> TRUE, num |-> 0]

\* parseInt(s, 10): leading white space is skipped, then an optional sign,
\* then the longest run of decimal digits; whatever follows is ignored.  No
\* digit at that place gives NaN.
parseInt(s) ==
    LET t == TrimStart(s)
        signed == t # <<>> /\ Head(t) \in {43, 45}
        d == IF signed THEN Tail(t) ELSE t
    IN  IF d = <<>> \/ ~IsDigit(Head(d))
        THEN NaN
        ELSE [nan |-> FALSE,
              num |-> IF signed /\ Head(t) = 45
                      THEN 0 - DigitsValue(d, 0)
                      ELSE DigitsValue(d, 0)]

isNaN(r) == r.nan

\* String.prototype.toLowerCase on one code unit (Basic Latin and Latin-1).
LowerUnit(c) ==
    IF c \in 65..90 \/ c \in 192..214 \/ c \in 216..222 THEN c + 32 ELSE c

toLowerCase(s) == [i \in 1..Len(s) |-> LowerUnit(s[i])]

\* new TextDecoder().decode(bytes) for bytes below 0xE0: UTF-8 sequences of
\* one and two bytes; a byte that starts no well-formed sequence decodes to
\* U+FFFD.
RECURSIVE TextDecode(_)
TextDecode(b) ==
    IF b = <<>> THEN <<>>
    ELSE IF Head(b) < 128 THEN <<Head(b)>> \o TextDecode(Tail(b))
    ELSE IF Head(b) \in 194..223 /\ Len(b) >= 2 /\ b[2] \in 128..191
         THEN <<(Head(b) - 192) * 64 + (b[2] - 128)>> \o TextDecode(SubSeq(b, 3, Len(b)))
    ELSE <<65533>> \o TextDecode(Tail(b))

----------------------------------------------------------------------------
(* Keys *)

Key(t) == [type |-> t, char |-> <<>>]
CharKey(text) == [type |-> "char", char |-> text]
NoKey == Key("none")

\* buf[i] of the zero-filled Uint8Array(8) after a read of the bytes c
\* (0-based i, as in the source).
BufAt(c, i) == IF i + 1 <= Len(c) THEN c[i + 1] ELSE 0

\* Faulty variants of decodeKey.  "alone": a control byte is a key only when
\* it is the whole chunk.  "mirror": the codes of right and left are
\* exchanged.  "first": a char event carries the first byte only.
decodeKeyVariant(n, c, v) ==
    IF n = -1 \/ n = 0 THEN Key("unknown")
    ELSE LET first == BufAt(c, 0)
             lone == v = "alone" => n = 1
             right == IF v = "mirror" THEN 68 ELSE 67
             left == IF v = "mirror" THEN 67 ELSE 68
         IN
         IF first = CTRL_C /\ lone THEN Key("ctrl-c")
         ELSE IF first = ENTER /\ lone THEN Key("enter")
         ELSE IF (first = BACKSPACE \/ first = DEL) /\ lone THEN Key("backspace")
         ELSE IF first = ESCAPE
              THEN IF n = 1 THEN Key("escape")
                   ELSE IF BufAt(c, 1) = 91 /\ BufAt(c, 2) = 65 THEN Key("up")
                   ELSE IF BufAt(c, 1) = 91 /\ BufAt(c, 2) = 66 THEN Key("down")
                   ELSE IF BufAt(c, 1) = 91 /\ BufAt(c, 2) = right THEN Key("right")
                   ELSE IF BufAt(c, 1) = 91 /\ BufAt(c, 2) = left THEN Key("left")
                   ELSE Key("unknown")
         ELSE IF v = "first" THEN CharKey(TextDecode(<<first>>))
         ELSE CharKey(TextDecode(SubSeq(c, 1, n)))

decodeKeyControlAlone(n, c) == decodeKeyVariant(n, c, "alone")
decodeKeyMirrored(n, c) == decodeKeyVariant(n, c, "mirror")
decodeKeyFirstByte(n, c) == decodeKeyVariant(n, c, "first")

\* A faulty variant of decodeKey: when more bytes follow a leading control
\* byte or arrow sequence in the same read, the key behind it is the one
\* decoded.
decodeKeySkipsLead(n, c) ==
    IF n > 1 /\ BufAt(c, 0) \in {CTRL_C, ENTER, BACKSPACE, DEL}
    THEN decodeKeyVariant(n - 1, SubSeq(c, 2, n), "none")
    ELSE IF n > 3 /\ BufAt(c, 0) = ESCAPE /\ BufAt(c, 1) = 91 /\ BufAt(c, 2) \in 65..68
    THEN decodeKeyVariant(n - 3, SubSeq(c, 4, n), "none")
    ELSE decodeKeyVariant(n, c, "none")

\* readKey, after the read: n is the number of bytes read (-1 for null, end
\* of stream), c the bytes.
decodeKey(n, c) ==
    IF n = -1 \/ n = 0 THEN Key("unknown")
    ELSE LET first == BufAt(c, 0) IN
         IF first = CTRL_C THEN Key("ctrl-c")
         ELSE IF first = ENTER THEN Key("enter")
         ELSE IF first = BACKSPACE \/ first = DEL THEN Key("backspace")
         ELSE IF first = ESCAPE
              THEN IF n = 1 THEN Key("escape")
                   ELSE IF BufAt(c, 1) = 91 /\ BufAt(c, 2) = 65 THEN Key("up")
                   ELSE IF BufAt(c, 1) = 91 /\ BufAt(c, 2) = 66 THEN Key("down")
                   ELSE IF BufAt(c, 1) = 91 /\ BufAt(c, 2) = 67 THEN Key("right")
                   ELSE IF BufAt(c, 1) = 91 /\ BufAt(c, 2) = 68 THEN Key("left")
                   ELSE Key("unknown")
         ELSE CharKey(TextDecode(SubSeq(c, 1, n)))

----------------------------------------------------------------------------
(* The terminal: raw-mode flag, cursor visibility, and the operations a     *)
(* step performs on it.  A step's straight-line code is a chain of          *)
(* operations on a record t; t.err is set once a write has thrown, and the  *)
(* operations after it in the try block are skipped.  failAt names the      *)
(* write attempt of the block that throws (0: none does).  A write that     *)
(* throws leaves nothing on the terminal.                                   *)

hideCursor == "hideCursor"
showCursor == "showCursor"
clearLine == "clearLine"

Term(r, h) ==
    [raw |-> r, hidden |-> h, ops |-> <<>>, n |-> 0, err |-> FALSE, frame |-> frame]

RawOp(mode) == [op |-> "setRaw", text |-> IF mode THEN "true" ELSE "false", n |-> 0]
WriteOp(text, n) == [op |-> "write", text |-> text, n |-> n]
LogOp(text) == [op |-> "log", text |-> text, n |-> 0]

\* A faulty variant of setRaw: raw mode is never engaged.
setRawNeverEngages(t, mode) ==
    IF t.err THEN t
    ELSE [t EXCEPT !.raw = FALSE, !.ops = Append(@, RawOp(FALSE))]

\* A faulty variant of setRaw: raw mode is held while another call is still
\* waiting in its loop.
setRawCounted(t, mode) ==
    IF t.err THEN t
    ELSE IF ~mode /\ other.state = "waiting"
    THEN [t EXCEPT !.ops = Append(@, RawOp(mode))]
    ELSE [t EXCEPT !.raw = mode, !.ops = Append(@, RawOp(mode))]

\* Deno.stdin.setRaw(mode)
setRaw(t, mode) ==
    IF t.err THEN t
    ELSE [t EXCEPT !.raw = mode, !.ops = Append(@, RawOp(mode))]

\* write(text): one Deno.stdout.writeSync; n is the number the text carries
\* (the line count of cursorUp, the value a frame shows).
write(t, text, n, failAt) ==
    IF t.err THEN t
    ELSE IF t.n + 1 = failAt THEN [t EXCEPT !.n = @ + 1, !.err = TRUE]
    ELSE [t EXCEPT !.n = @ + 1,
                   !.ops = Append(@, WriteOp(text, n)),
                   !.hidden = IF text = hideCursor THEN TRUE
                              ELSE IF text = showCursor THEN FALSE
                              ELSE @]

\* console.log(text) and the message of prompt(text): cooked-mode output.
log(t, text) == [t EXCEPT !.ops = Append(@, LogOp(text))]

\* The state a finally block starts in: the pending exception does not skip it.
Unwind(t) == [t EXCEPT !.err = FALSE, !.n = 0]

\* The end of a render: if all its writes went through, the frame on the
\* terminal is the one rendered from the widget state f.
Framed(t, f) == IF t.err THEN t ELSE [t EXCEPT !.frame = f]

----------------------------------------------------------------------------
(* Arguments, local state, inputs *)

NoArgs == [len |-> 0, defaultIndex |-> 0, defaultText |-> <<>>,
           min |-> 0, max |-> 0, defaultRating |-> 0, defaultBool |-> FALSE]

NoLoc == [selected |-> 0, inputValue |-> <<>>, ratingValue |-> 0,
          confirmValue |-> FALSE]

SeqsUpTo(S, k) == UNION {[1..m -> S] : m \in 0..k}

\* Bytes of text a read may deliver alone: 1 2 y Y n N, and each of the two
\* bytes of U+00E9 in UTF-8.
TextBytes == {49, 50, 121, 89, 110, 78, 195, 169}

\* Bytes of text that arrive several to a read (pasted or typed fast): 2 y
\* and U+00E9.
PasteBytes == {50, 121, 195, 169}

TextChunks == {<<b>> : b \in TextBytes} \cup (SeqsUpTo(PasteBytes, MaxText) \ {<<>>})

\* Chunks led by a control byte, alone or with more bytes behind it.
ControlChunks ==
    {<<b>> \o rest : b \in {CTRL_C, ENTER, BACKSPACE, DEL},
                     rest \in {<<>>, <<50>>, <<ENTER>>, <<CTRL_C>>}}

\* Chunks led by ESC: alone, the four arrows, and malformed sequences.
EscChunks ==
    {<<ESCAPE>>, <<ESCAPE, 91>>, <<ESCAPE, 79, 65>>, <<ESCAPE, ESCAPE>>,
     <<ESCAPE, 91, 66, ESCAPE, 91, 66>>}
    \cup {<<ESCAPE, 91, b>> : b \in 65..69}

\* The pieces that follow ESC, or ESC [, when an arrow sequence is split
\* across two reads.
SplitChunks == {<<91, 66>>, <<66>>}

\* The three-byte arrow sequences, and the heads a split one starts with.
ArrowSequences == {<<ESCAPE, 91, b>> : b \in 65..68}
ArrowHeads == {<<ESCAPE>>, <<ESCAPE, 91>>}

\* Text with a control byte behind it in the same read: y and carriage
\* return.
MixedChunks == {<<121, ENTER>>}

Chunks ==
    {c \in ControlChunks \cup EscChunks \cup TextChunks \cup SplitChunks
            \cup MixedChunks :
        Len(c) <= BufSize}

\* Code units of a line answered to prompt(): space 2 y Y e s n o.
LineUnits == {32, 50, 121, 89, 101, 115, 110, 111}

\* Code units of a line that answers with a number: space - 0 2.
NumberUnits == {32, 45, 48, 50}

Lines == SeqsUpTo(LineUnits, MaxLine) \cup SeqsUpTo(NumberUnits, MaxLine)

\* What prompt() returns: null at end of input, or the line.
NoLine == [null |-> TRUE, text |-> <<>>]

PromptResults == {NoLine}
                 \cup {[null |-> FALSE, text |-> l] : l \in Lines}

DefaultTexts == {<<>>, <<97>>}

\* No overlapping call.
NoOther == [state |-> "none", widget |-> "none", args |-> NoArgs, loc |-> NoLoc,
            fold |-> NoLoc, frame |-> NoLoc]

\* The block files: ids, and the fields of a Block the commands read or
\* write (endDate: whether it is set).  NoBlock stands for no file and for
\* the null of getCurrentBlock.
BlockIds == 1..MaxBlocks
NoBlock == [id |-> 0, condition |-> "", tags |-> <<>>, expectedDuration |-> 0,
            endDate |-> FALSE]

\* The third positional argument of an invocation, args._[2]: undefined, a
\* number (units: its decimal text) or a string (a condition word, or other
\* text given by its code units).
Undefined == [kind |-> "undefined", word |-> "", units |-> <<>>]
Word(w) == [kind |-> "string", word |-> w, units |-> <<>>]
Text(u) == [kind |-> "string", word |-> "", units |-> u]
Number(u) == [kind |-> "number", word |-> "", units |-> u]

\* No invocation of the block command yet.
NoRun == [subcommand |-> "none", arg |-> Undefined, status |-> 0, wrote |-> 0]

Init ==
    /\ pc = "idle"
    /\ widget = "none"
    /\ args = NoArgs
    /\ tty \in BOOLEAN
    /\ loc = NoLoc
    /\ key = NoKey
    /\ chunk = <<>>
    /\ raw = FALSE
    /\ cursorHidden = FALSE
    /\ ops = <<>>
    /\ result = NoLoc
    /\ exitCode = -1
    /\ ttyChecks = 0
    /\ linesRead = 0
    /\ line = NoLine
    /\ untouched = FALSE
    /\ fold = NoLoc
    /\ split = <<>>
    /\ frame = NoLoc
    /\ other = NoOther
    /\ blocks = [id \in BlockIds |-> NoBlock]
    /\ ran = NoRun

\* The caller may call a widget when no call is in progress and the process
\* has not ended.
Callable == pc = "idle"

\* A faulty variant of Resume: the value the call returned stays behind as
\* widget state.
ResumeKeepsLocals ==
    /\ pc \in {"returned", "thrown"}
    /\ pc' = "idle"
    /\ widget' = "none"
    /\ args' = NoArgs
    /\ loc' = result
    /\ key' = NoKey
    /\ chunk' = <<>>
    /\ ops' = <<>>
    /\ ttyChecks' = 0
    /\ linesRead' = 0
    /\ line' = NoLine
    /\ untouched' = FALSE
    /\ fold' = NoLoc
    /\ split' = <<>>
    /\ frame' = NoLoc
    /\ UNCHANGED <<blockVars, tty, raw, cursorHidden, exitCode, other, result>>

\* The caller takes the result (or catches the error) of the finished call.
Resume ==
    /\ pc \in {"returned", "thrown"}
    /\ pc' = "idle"
    /\ widget' = "none"
    /\ args' = NoArgs
    /\ loc' = NoLoc
    /\ key' = NoKey
    /\ chunk' = <<>>
    /\ ops' = <<>>
    /\ result' = NoLoc
    /\ ttyChecks' = 0
    /\ linesRead' = 0
    /\ line' = NoLine
    /\ untouched' = FALSE
    /\ fold' = NoLoc
    /\ split' = <<>>
    /\ frame' = NoLoc
    /\ UNCHANGED <<blockVars, tty, raw, cursorHidden, exitCode, other>>

\* The terminal after a step that ran the operations of t.
Apply(t) ==
    /\ raw' = t.raw
    /\ cursorHidden' = t.hidden
    /\ ops' = t.ops
    /\ frame' = t.frame

----------------------------------------------------------------------------
(* The transition tables of the specification (section 4.4), one step each. *)
(* They are the reference the history variable fold follows; the widgets    *)
(* below are translated from the code and do not use them.                  *)

\* A digit key: a char event whose text is one decimal digit.
IsDigitKey(k) == k.type = "char" /\ Len(k.char) = 1 /\ IsDigit(k.char[1])
DigitOf(k) == k.char[1] - 48

SelectTable(i, k, len) ==
    IF k.type = "up" THEN Max(i - 1, 0)
    ELSE IF k.type = "down" THEN Min(i + 1, len - 1)
    ELSE IF IsDigitKey(k) /\ 1 <= DigitOf(k) /\ DigitOf(k) <= len THEN DigitOf(k) - 1
    ELSE i

RatingTable(v, k, min, max) ==
    IF k.type \in {"left", "down"} THEN Max(v - 1, min)
    ELSE IF k.type \in {"right", "up"} THEN Min(v + 1, max)
    ELSE IF IsDigitKey(k) /\ min <= DigitOf(k) /\ DigitOf(k) <= max THEN DigitOf(k)
    ELSE v

InputTable(b, k) ==
    IF k.type = "char" THEN b \o k.char
    ELSE IF k.type = "backspace" /\ b # <<>> THEN SubSeq(b, 1, Len(b) - 1)
    ELSE b

ConfirmTable(v, k) ==
    IF k.type \in {"up", "down", "left", "right"} THEN ~v
    ELSE IF k.type = "char" /\ k.char \in {<<121>>, <<89>>} THEN TRUE
    ELSE IF k.type = "char" /\ k.char \in {<<110>>, <<78>>} THEN FALSE
    ELSE v

----------------------------------------------------------------------------
(* What the widgets share: the read of a key, and how a turn of the loop    *)
(* ends (try / finally / return).                                           *)

\* What Deno.stdin.read resolves to: null at end of stream (n = -1), zero
\* bytes, or a chunk.
Reads ==
    {[n |-> -1, c |-> <<>>], [n |-> 0, c |-> <<>>]}
    \cup {[n |-> Len(c), c |-> c] : c \in Chunks}

\* The model offers input a text only while the buffer stays within MaxBuf.
ReadAllowed(k) ==
    widget = "input" /\ k.type = "char" => Len(loc.inputValue) + Len(k.char) <= MaxBuf

\* await readKey(): the read resolves and the bytes are decoded to one Key.
readKey ==
    /\ pc = "await"
    /\ \E rd \in Reads :
        /\ ReadAllowed(decodeKey(rd.n, rd.c))
        /\ key' = decodeKey(rd.n, rd.c)
        /\ chunk' = rd.c
        /\ split' = IF split \o rd.c \in ArrowSequences THEN split ELSE <<>>
    /\ pc' = "key"
    /\ ops' = <<>>
    /\ UNCHANGED <<blockVars, widget, args, tty, loc, raw, cursorHidden, result, exitCode,
                   ttyChecks, linesRead, line, untouched, fold, frame, other>>

\* The end of a turn of the loop whose try-block part left the terminal as t
\* and decided out ("exit": Deno.exit(130) is reached; "break"; "loop"); tf
\* is t after the finally block.  An exception (t.err) and break run the
\* finally block; Deno.exit does not return, so it runs nothing more; the
\* locals die with the call (the model forgets the frame with them), and
\* key with the turn of the loop.
Outcome(t, out, tf, newLoc, ret, newFold) ==
    LET all == [tf EXCEPT !.ops = t.ops \o @, !.frame = NoLoc] IN
    IF t.err
    THEN /\ Apply(all)
         /\ pc' = "thrown"
         /\ loc' = NoLoc
         /\ fold' = NoLoc
         /\ UNCHANGED <<result, exitCode, key, chunk, untouched, split>>
    ELSE IF out = "exit"
    THEN /\ Apply([t EXCEPT !.frame = NoLoc])
         /\ pc' = "exited"
         /\ exitCode' = 130
         /\ loc' = NoLoc
         /\ fold' = NoLoc
         /\ UNCHANGED <<result, key, chunk, untouched, split>>
    ELSE IF out = "break"
    THEN /\ Apply(all)
         /\ loc' = NoLoc
         /\ UNCHANGED <<exitCode, key, chunk, untouched, split>>
         /\ IF tf.err
            THEN pc' = "thrown" /\ fold' = NoLoc /\ UNCHANGED result
            ELSE pc' = "returned" /\ fold' = fold /\ result' = ret
    ELSE /\ Apply(t)
         /\ pc' = "await"
         /\ loc' = newLoc
         /\ fold' = newFold
         /\ key' = NoKey
         /\ chunk' = <<>>
         /\ untouched' = FALSE
         /\ split' = IF chunk \in ArrowHeads THEN chunk ELSE <<>>
         /\ UNCHANGED <<result, exitCode>>

----------------------------------------------------------------------------
(* select, lines 128-225 *)

SelectArgs ==
    {[NoArgs EXCEPT !.len = l, !.defaultIndex = d] :
        l \in 0..MaxOptions, d \in -1..MaxOptions}

\* for (i ...) { write(clearLine); write(option i) }
RECURSIVE renderOptions(_, _, _, _, _)
renderOptions(t, i, len, selected, failAt) ==
    IF i >= len THEN t
    ELSE LET t1 == write(t, clearLine, 0, failAt)
             t2 == IF i = selected
                   THEN write(t1, "optionSelected", i, failAt)
                   ELSE write(t1, "option", i, failAt)
         IN  renderOptions(t2, i + 1, len, selected, failAt)

\* render of select
selectRender(t, len, selected, failAt) ==
    LET t1 == write(t, "\\r+clearLine", 0, failAt)
        t2 == write(t1, "question", 0, failAt)
    IN  Framed(renderOptions(t2, 0, len, selected, failAt),
               [t.frame EXCEPT !.selected = selected])

\* A faulty variant of moveUp: the cursor goes up one line too few.
moveUpShort(t, len, failAt) == write(t, "cursorUp", len, failAt)

\* moveUp of select
moveUp(t, len, failAt) == write(t, "cursorUp", len + 1, failAt)

\* A faulty variant of selectFinally: the cursor is not shown again.
selectFinallyKeepsHidden(t, finFail) ==
    LET u == setRaw(Unwind(t), FALSE)
    IN  [u EXCEPT !.err = t.err \/ finFail]

\* finally of select: setRaw(false), then write(showCursor), which may throw
selectFinally(t, finFail) ==
    LET u == write(setRaw(Unwind(t), FALSE), showCursor, 0, IF finFail THEN 1 ELSE 0)
    IN  [u EXCEPT !.err = t.err \/ u.err]

\* A faulty variant of selectEmpty: the question is printed before the
\* option list is found empty.
selectEmptyPrints ==
    /\ Callable
    /\ \E a \in SelectArgs :
        /\ a.len = 0
        /\ args' = a
    /\ widget' = "select"
    /\ pc' = "returned"
    /\ result' = [NoLoc EXCEPT !.selected = -1]
    /\ ops' = <<LogOp("question")>>
    /\ UNCHANGED <<blockVars, tty, loc, key, chunk, raw, cursorHidden, exitCode, ttyChecks,
                   linesRead, line, untouched, fold, split,
                   frame, other>>

\* options.length === 0: return -1
selectEmpty ==
    /\ Callable
    /\ \E a \in SelectArgs :
        /\ a.len = 0
        /\ args' = a
    /\ widget' = "select"
    /\ pc' = "returned"
    /\ result' = [NoLoc EXCEPT !.selected = -1]
    /\ ops' = <<>>
    /\ UNCHANGED <<blockVars, tty, loc, key, chunk, raw, cursorHidden, exitCode, ttyChecks,
                   linesRead, line, untouched, fold, split,
                   frame, other>>

\* The fallback of select up to the read of the line: lines 137-144.
selectFallback ==
    /\ Callable
    /\ ~tty
    /\ \E a \in SelectArgs :
        /\ a.len > 0
        /\ args' = a
        /\ ops' = <<LogOp("question")>>
                  \o [i \in 1..a.len |-> LogOp("option")]
                  \o <<LogOp("prompt")>>
    /\ widget' = "select"
    /\ pc' = "prompt"
    /\ ttyChecks' = ttyChecks + 1
    /\ UNCHANGED <<blockVars, tty, loc, key, chunk, raw, cursorHidden, result, exitCode,
                   linesRead, line, untouched, fold, split,
                   frame, other>>

\* A faulty variant of selectFallbackResult: a default outside the option
\* list is brought into it before it is returned.
selectFallbackResultClamped(a, r) ==
    LET d == Max(0, Min(a.defaultIndex, a.len - 1)) IN
    IF r.null \/ trim(r.text) = <<>> THEN d
    ELSE LET num == parseInt(trim(r.text)) IN
         IF ~isNaN(num) /\ num.num >= 1 /\ num.num <= a.len
         THEN num.num - 1
         ELSE d

\* lines 145-152
selectFallbackResult(a, r) ==
    IF r.null \/ trim(r.text) = <<>> THEN a.defaultIndex
    ELSE LET num == parseInt(trim(r.text)) IN
         IF ~isNaN(num) /\ num.num >= 1 /\ num.num <= a.len
         THEN num.num - 1
         ELSE a.defaultIndex

\* prompt() returns and the fallback of select returns its result.
selectPrompt ==
    /\ pc = "prompt"
    /\ widget = "select"
    /\ \E r \in PromptResults :
        /\ line' = r
        /\ result' = [NoLoc EXCEPT !.selected = selectFallbackResult(args, r)]
    /\ linesRead' = linesRead + 1
    /\ pc' = "returned"
    /\ ops' = <<>>
    /\ UNCHANGED <<blockVars, widget, args, tty, loc, key, chunk, raw, cursorHidden, exitCode,
                   ttyChecks, untouched, fold, split,
                   frame, other>>

\* The interactive path of select up to the first readKey: lines 155-185.
selectStart ==
    /\ Callable
    /\ tty
    /\ \E a \in SelectArgs, failAt \in 0..(2 * MaxOptions + 3), finFail \in BOOLEAN :
        /\ a.len > 0
        /\ failAt <= 2 * a.len + 3
        /\ finFail => failAt # 0
        /\ args' = a
        /\ LET selected == a.defaultIndex
               t1 == setRaw(Term(raw, cursorHidden), TRUE)
               t2 == write(t1, hideCursor, 0, failAt)
               t3 == selectRender(t2, a.len, selected, failAt)
               tf == selectFinally(t3, finFail)
           IN  /\ fold' = [NoLoc EXCEPT !.selected = a.defaultIndex]
               /\ IF t3.err
                  THEN /\ Apply([tf EXCEPT !.ops = t3.ops \o @])
                       /\ pc' = "thrown"
                       /\ loc' = NoLoc
                  ELSE /\ Apply(t3)
                       /\ pc' = "await"
                       /\ loc' = [NoLoc EXCEPT !.selected = selected]
    /\ widget' = "select"
    /\ ttyChecks' = ttyChecks + 1
    /\ untouched' = TRUE
    /\ UNCHANGED <<blockVars, tty, key, chunk, result, exitCode, linesRead, line, split,
                   other>>

\* A faulty variant of selectLoopBody: down is not stopped at the last
\* option.
selectLoopBodyUnclamped(t, selected, k, len, failAt) ==
    IF k.type = "ctrl-c"
    THEN [t |-> setRaw(write(t, showCursor, 0, failAt), FALSE),
          selected |-> selected, out |-> "exit"]
    ELSE IF k.type = "enter"
    THEN [t |-> t, selected |-> selected, out |-> "break"]
    ELSE LET up == k.type = "up" /\ selected > 0
             s1 == IF up THEN selected - 1 ELSE selected
             t1 == IF up THEN selectRender(moveUp(t, len, failAt), len, s1, failAt) ELSE t
             down == k.type = "down"
             s2 == IF down THEN s1 + 1 ELSE s1
             t2 == IF down THEN selectRender(moveUp(t1, len, failAt), len, s2, failAt) ELSE t1
             num == IF k.type = "char" THEN parseInt(k.char) ELSE NaN
             jump == k.type = "char" /\ ~isNaN(num) /\ num.num >= 1 /\ num.num <= len
             s3 == IF jump THEN num.num - 1 ELSE s2
             t3 == IF jump THEN selectRender(moveUp(t2, len, failAt), len, s3, failAt) ELSE t2
         IN  [t |-> t3, selected |-> s3, out |-> "loop"]

\* One turn of the loop after readKey resolved to k: lines 187-217.
selectLoopBody(t, selected, k, len, failAt) ==
    IF k.type = "ctrl-c"
    THEN [t |-> setRaw(write(t, showCursor, 0, failAt), FALSE),
          selected |-> selected, out |-> "exit"]
    ELSE IF k.type = "enter"
    THEN [t |-> t, selected |-> selected, out |-> "break"]
    ELSE LET up == k.type = "up" /\ selected > 0
             s1 == IF up THEN selected - 1 ELSE selected
             t1 == IF up THEN selectRender(moveUp(t, len, failAt), len, s1, failAt) ELSE t
             down == k.type = "down" /\ s1 < len - 1
             s2 == IF down THEN s1 + 1 ELSE s1
             t2 == IF down THEN selectRender(moveUp(t1, len, failAt), len, s2, failAt) ELSE t1
             num == IF k.type = "char" THEN parseInt(k.char) ELSE NaN
             jump == k.type = "char" /\ ~isNaN(num) /\ num.num >= 1 /\ num.num <= len
             s3 == IF jump THEN num.num - 1 ELSE s2
             t3 == IF jump THEN selectRender(moveUp(t2, len, failAt), len, s3, failAt) ELSE t2
         IN  [t |-> t3, selected |-> s3, out |-> "loop"]

\* select runs one turn of its loop on the key read, then awaits the next
\* key, or leaves through the finally block, or ends the process.

selectKey ==
    /\ pc = "key"
    /\ widget = "select"
    /\ \E failAt \in 0..selectLoopBody(Term(raw, cursorHidden), loc.selected, key,
                                       args.len, 0).t.n,
          finFail \in BOOLEAN :
        LET b == selectLoopBody(Term(raw, cursorHidden), loc.selected, key, args.len,
                                failAt)
            tf == selectFinally(b.t, finFail)
        IN  /\ finFail => (b.t.err \/ b.out = "break")
            /\ Outcome(b.t, b.out, tf,
                       [loc EXCEPT !.selected = b.selected],
                       [NoLoc EXCEPT !.selected = b.selected],
                       [fold EXCEPT !.selected = SelectTable(@, key, args.len)])
    /\ UNCHANGED <<blockVars, widget, args, tty, ttyChecks, linesRead, line, other>>

----------------------------------------------------------------------------
(* input, lines 230-292 *)

InputArgs == {[NoArgs EXCEPT !.defaultText = d] : d \in DefaultTexts}

\* render of input: the buffer, or the dimmed default, or nothing
inputRender(t, value, defaultValue, failAt) ==
    LET t1 == write(t, "\\r+clearLine", 0, failAt)
        t2 == IF value # <<>> THEN write(t1, "question+value", Len(value), failAt)
              ELSE IF defaultValue # <<>> THEN write(t1, "question+default", 0, failAt)
              ELSE write(t1, "question", 0, failAt)
    IN  Framed(t2, [t.frame EXCEPT !.inputValue = value])

\* A faulty variant of rawFinally: the finally block forgets setRaw(false).
rawFinallyForgets(t) == [Unwind(t) EXCEPT !.err = t.err]

\* A faulty variant of rawFinally: the finally block writes a line break after
\* setRaw(false).
rawFinallyThenNewline(t) ==
    LET u == write(setRaw(Unwind(t), FALSE), "\\n", 0, 0)
    IN  [u EXCEPT !.err = t.err]

\* finally of input, rating and confirm: setRaw(false)
rawFinally(t) ==
    LET u == setRaw(Unwind(t), FALSE)
    IN  [u EXCEPT !.err = t.err]

\* The fallback of input up to the read of the line: lines 234-237.
inputFallback ==
    /\ Callable
    /\ ~tty
    /\ \E a \in InputArgs :
        /\ args' = a
        /\ ops' = <<LogOp("prompt")>>
    /\ widget' = "input"
    /\ pc' = "prompt"
    /\ ttyChecks' = ttyChecks + 1
    /\ UNCHANGED <<blockVars, tty, loc, key, chunk, raw, cursorHidden, result, exitCode,
                   linesRead, line, untouched, fold, split,
                   frame, other>>

\* A faulty variant of inputFallbackResult: the line is returned as read.
inputFallbackResultUntrimmed(a, r) ==
    IF r.null \/ trim(r.text) = <<>> THEN a.defaultText ELSE r.text

\* lines 238-241
inputFallbackResult(a, r) ==
    IF r.null \/ trim(r.text) = <<>> THEN a.defaultText ELSE trim(r.text)

\* prompt() returns and the fallback of input returns its result.
inputPrompt ==
    /\ pc = "prompt"
    /\ widget = "input"
    /\ \E r \in PromptResults :
        /\ line' = r
        /\ result' = [NoLoc EXCEPT !.inputValue = inputFallbackResult(args, r)]
    /\ linesRead' = linesRead + 1
    /\ pc' = "returned"
    /\ ops' = <<>>
    /\ UNCHANGED <<blockVars, widget, args, tty, loc, key, chunk, raw, cursorHidden, exitCode,
                   ttyChecks, untouched, fold, split,
                   frame, other>>

\* The interactive path of input up to the first readKey: lines 244-262.
inputStart ==
    /\ Callable
    /\ tty
    /\ \E a \in InputArgs, failAt \in 0..2 :
        /\ args' = a
        /\ LET value == <<>>
               t1 == setRaw(Term(raw, cursorHidden), TRUE)
               t2 == inputRender(t1, value, a.defaultText, failAt)
               tf == rawFinally(t2)
           IN  /\ fold' = [NoLoc EXCEPT !.inputValue = <<>>]
               /\ IF t2.err
                  THEN /\ Apply([tf EXCEPT !.ops = t2.ops \o @])
                       /\ pc' = "thrown"
                       /\ loc' = NoLoc
                  ELSE /\ Apply(t2)
                       /\ pc' = "await"
                       /\ loc' = [NoLoc EXCEPT !.inputValue = value]
    /\ widget' = "input"
    /\ ttyChecks' = ttyChecks + 1
    /\ untouched' = TRUE
    /\ UNCHANGED <<blockVars, tty, key, chunk, result, exitCode, linesRead, line, split,
                   other>>

\* A faulty variant of inputLoopBody: backspace drops the first code unit of the
\* buffer, not the last.
inputLoopBodyDropsFirst(t, value, k, defaultValue, failAt) ==
    IF k.type = "ctrl-c"
    THEN [t |-> setRaw(t, FALSE), value |-> value, out |-> "exit"]
    ELSE IF k.type = "enter"
    THEN [t |-> write(t, "\\n", 0, failAt), value |-> value, out |-> "break"]
    ELSE IF k.type = "backspace"
    THEN IF Len(value) > 0
         THEN [t |-> inputRender(t, Tail(value), defaultValue, failAt),
               value |-> Tail(value), out |-> "loop"]
         ELSE [t |-> t, value |-> value, out |-> "loop"]
    ELSE IF k.type = "char"
    THEN [t |-> inputRender(t, value \o k.char, defaultValue, failAt),
          value |-> value \o k.char, out |-> "loop"]
    ELSE [t |-> t, value |-> value, out |-> "loop"]

\* A faulty variant of inputLoopBody: a char event redraws first and
\* appends its text after.
inputLoopBodyRendersFirst(t, value, k, defaultValue, failAt) ==
    IF k.type = "ctrl-c"
    THEN [t |-> setRaw(t, FALSE), value |-> value, out |-> "exit"]
    ELSE IF k.type = "enter"
    THEN [t |-> write(t, "\\n", 0, failAt), value |-> value, out |-> "break"]
    ELSE IF k.type = "backspace"
    THEN IF Len(value) > 0
         THEN LET v == SubSeq(value, 1, Len(value) - 1)
              IN  [t |-> inputRender(t, v, defaultValue, failAt), value |-> v,
                   out |-> "loop"]
         ELSE [t |-> t, value |-> value, out |-> "loop"]
    ELSE IF k.type = "char"
    THEN [t |-> inputRender(t, value, defaultValue, failAt),
          value |-> value \o k.char, out |-> "loop"]
    ELSE [t |-> t, value |-> value, out |-> "loop"]

\* One turn of the loop: lines 264-285.
inputLoopBody(t, value, k, defaultValue, failAt) ==
    IF k.type = "ctrl-c"
    THEN [t |-> setRaw(t, FALSE), value |-> value, out |-> "exit"]
    ELSE IF k.type = "enter"
    THEN [t |-> write(t, "\\n", 0, failAt), value |-> value, out |-> "break"]
    ELSE IF k.type = "backspace"
    THEN IF Len(value) > 0
         THEN LET v == SubSeq(value, 1, Len(value) - 1)
              IN  [t |-> inputRender(t, v, defaultValue, failAt), value |-> v,
                   out |-> "loop"]
         ELSE [t |-> t, value |-> value, out |-> "loop"]
    ELSE IF k.type = "char"
    THEN LET v == value \o k.char
         IN  [t |-> inputRender(t, v, defaultValue, failAt), value |-> v, out |-> "loop"]
    ELSE [t |-> t, value |-> value, out |-> "loop"]

\* A faulty variant of inputReturn: the default is forgotten (return value).
inputReturnValueOnly(value, defaultValue) == value

\* return value || defaultValue
inputReturn(value, defaultValue) == IF value # <<>> THEN value ELSE defaultValue

\* input runs one turn of its loop on the key read.

inputKey ==
    /\ pc = "key"
    /\ widget = "input"
    /\ \E failAt \in 0..inputLoopBody(Term(raw, cursorHidden), loc.inputValue, key,
                                      args.defaultText, 0).t.n :
        LET b == inputLoopBody(Term(raw, cursorHidden), loc.inputValue, key,
                               args.defaultText, failAt)
            tf == rawFinally(b.t)
        IN  /\ Outcome(b.t, b.out, tf,
                       [loc EXCEPT !.inputValue = b.value],
                       [NoLoc EXCEPT
                          !.inputValue = inputReturn(b.value, args.defaultText)],
                       [fold EXCEPT !.inputValue = InputTable(@, key)])
    /\ UNCHANGED <<blockVars, widget, args, tty, ttyChecks, linesRead, line, other>>

----------------------------------------------------------------------------
(* rating, lines 297-376 *)

RatingArgs ==
    {[NoArgs EXCEPT !.min = lo, !.max = hi, !.defaultRating = d] :
        lo \in 1..2, hi \in 1..MaxRating, d \in 0..(MaxRating + 1)}

\* render of rating: one write for the line start, one for question and scale
ratingRender(t, value, failAt) ==
    Framed(write(write(t, "\\r+clearLine", 0, failAt), "question+scale", value,
                 failAt),
           [t.frame EXCEPT !.ratingValue = value])

\* The fallback of rating up to the read of the line: lines 303-305.
ratingFallback ==
    /\ Callable
    /\ ~tty
    /\ \E a \in RatingArgs :
        /\ args' = a
        /\ ops' = <<LogOp("prompt")>>
    /\ widget' = "rating"
    /\ pc' = "prompt"
    /\ ttyChecks' = ttyChecks + 1
    /\ UNCHANGED <<blockVars, tty, loc, key, chunk, raw, cursorHidden, result, exitCode,
                   linesRead, line, untouched, fold, split,
                   frame, other>>

\* A faulty variant of ratingFallbackResult: the range is not checked.
ratingFallbackResultUnchecked(a, r) ==
    IF r.null \/ trim(r.text) = <<>> THEN a.defaultRating
    ELSE LET num == parseInt(trim(r.text)) IN
         IF ~isNaN(num) THEN num.num ELSE a.defaultRating

\* lines 306-313
ratingFallbackResult(a, r) ==
    IF r.null \/ trim(r.text) = <<>> THEN a.defaultRating
    ELSE LET num == parseInt(trim(r.text)) IN
         IF ~isNaN(num) /\ num.num >= a.min /\ num.num <= a.max
         THEN num.num
         ELSE a.defaultRating

\* prompt() returns and the fallback of rating returns its result.
ratingPrompt ==
    /\ pc = "prompt"
    /\ widget = "rating"
    /\ \E r \in PromptResults :
        /\ line' = r
        /\ result' = [NoLoc EXCEPT !.ratingValue = ratingFallbackResult(args, r)]
    /\ linesRead' = linesRead + 1
    /\ pc' = "returned"
    /\ ops' = <<>>
    /\ UNCHANGED <<blockVars, widget, args, tty, loc, key, chunk, raw, cursorHidden, exitCode,
                   ttyChecks, untouched, fold, split,
                   frame, other>>

\* The interactive path of rating up to the first readKey: lines 316-340.
ratingStart ==
    /\ Callable
    /\ tty
    /\ \E a \in RatingArgs, failAt \in 0..2 :
        /\ args' = a
        /\ LET value == a.defaultRating
               t1 == setRaw(Term(raw, cursorHidden), TRUE)
               t2 == ratingRender(t1, value, failAt)
               tf == rawFinally(t2)
           IN  /\ fold' = [NoLoc EXCEPT !.ratingValue = a.defaultRating]
               /\ IF t2.err
                  THEN /\ Apply([tf EXCEPT !.ops = t2.ops \o @])
                       /\ pc' = "thrown"
                       /\ loc' = NoLoc
                  ELSE /\ Apply(t2)
                       /\ pc' = "await"
                       /\ loc' = [NoLoc EXCEPT !.ratingValue = value]
    /\ widget' = "rating"
    /\ ttyChecks' = ttyChecks + 1
    /\ untouched' = TRUE
    /\ UNCHANGED <<blockVars, tty, key, chunk, result, exitCode, linesRead, line, split,
                   other>>

\* A faulty variant of ratingLoopBody: a key that changes nothing redraws
\* the scale.
ratingLoopBodyRedraws(t, value, k, min, max, failAt) ==
    IF k.type = "ctrl-c"
    THEN [t |-> setRaw(t, FALSE), value |-> value, out |-> "exit"]
    ELSE IF k.type = "enter"
    THEN [t |-> write(t, "\\n", 0, failAt), value |-> value, out |-> "break"]
    ELSE LET dec == k.type \in {"left", "down"} /\ value > min
             v1 == IF dec THEN value - 1 ELSE value
             inc == k.type \in {"right", "up"} /\ v1 < max
             v2 == IF inc THEN v1 + 1 ELSE v1
             num == IF k.type = "char" THEN parseInt(k.char) ELSE NaN
             jump == k.type = "char" /\ ~isNaN(num) /\ num.num >= min /\ num.num <= max
             v3 == IF jump THEN num.num ELSE v2
         IN  [t |-> ratingRender(t, v3, failAt), value |-> v3, out |-> "loop"]

\* A faulty variant of ratingLoopBody: a digit is accepted whenever it is
\* at least min.
ratingLoopBodyUnclamped(t, value, k, min, max, failAt) ==
    IF k.type = "ctrl-c"
    THEN [t |-> setRaw(t, FALSE), value |-> value, out |-> "exit"]
    ELSE IF k.type = "enter"
    THEN [t |-> write(t, "\\n", 0, failAt), value |-> value, out |-> "break"]
    ELSE LET dec == k.type \in {"left", "down"} /\ value > min
             v1 == IF dec THEN value - 1 ELSE value
             t1 == IF dec THEN ratingRender(t, v1, failAt) ELSE t
             inc == k.type \in {"right", "up"} /\ v1 < max
             v2 == IF inc THEN v1 + 1 ELSE v1
             t2 == IF inc THEN ratingRender(t1, v2, failAt) ELSE t1
             num == IF k.type = "char" THEN parseInt(k.char) ELSE NaN
             jump == k.type = "char" /\ ~isNaN(num) /\ num.num >= min
             v3 == IF jump THEN num.num ELSE v2
             t3 == IF jump THEN ratingRender(t2, v3, failAt) ELSE t2
         IN  [t |-> t3, value |-> v3, out |-> "loop"]

\* One turn of the loop: lines 342-369.
ratingLoopBody(t, value, k, min, max, failAt) ==
    IF k.type = "ctrl-c"
    THEN [t |-> setRaw(t, FALSE), value |-> value, out |-> "exit"]
    ELSE IF k.type = "enter"
    THEN [t |-> write(t, "\\n", 0, failAt), value |-> value, out |-> "break"]
    ELSE LET dec == k.type \in {"left", "down"} /\ value > min
             v1 == IF dec THEN value - 1 ELSE value
             t1 == IF dec THEN ratingRender(t, v1, failAt) ELSE t
             inc == k.type \in {"right", "up"} /\ v1 < max
             v2 == IF inc THEN v1 + 1 ELSE v1
             t2 == IF inc THEN ratingRender(t1, v2, failAt) ELSE t1
             num == IF k.type = "char" THEN parseInt(k.char) ELSE NaN
             jump == k.type = "char" /\ ~isNaN(num) /\ num.num >= min /\ num.num <= max
             v3 == IF jump THEN num.num ELSE v2
             t3 == IF jump THEN ratingRender(t2, v3, failAt) ELSE t2
         IN  [t |-> t3, value |-> v3, out |-> "loop"]

\* rating runs one turn of its loop on the key read.

ratingKey ==
    /\ pc = "key"
    /\ widget = "rating"
    /\ \E failAt \in 0..ratingLoopBody(Term(raw, cursorHidden), loc.ratingValue, key,
                                       args.min, args.max, 0).t.n :
        LET b == ratingLoopBody(Term(raw, cursorHidden), loc.ratingValue, key,
                                args.min, args.max, failAt)
            tf == rawFinally(b.t)
        IN  /\ Outcome(b.t, b.out, tf,
                       [loc EXCEPT !.ratingValue = b.value],
                       [NoLoc EXCEPT !.ratingValue = b.value],
                       [fold EXCEPT
                          !.ratingValue = RatingTable(@, key, args.min, args.max)])
    /\ UNCHANGED <<blockVars, widget, args, tty, ttyChecks, linesRead, line, other>>

----------------------------------------------------------------------------
(* confirm, lines 381-449 *)

ConfirmArgs == {[NoArgs EXCEPT !.defaultBool = d] : d \in BOOLEAN}

\* render of confirm: one write for the line start, one for question and labels
confirmRender(t, value, failAt) ==
    Framed(write(write(t, "\\r+clearLine", 0, failAt), "question+yes/no",
                 IF value THEN 1 ELSE 0, failAt),
           [t.frame EXCEPT !.confirmValue = value])

\* The fallback of confirm up to the read of the line: lines 385-388.
confirmFallback ==
    /\ Callable
    /\ ~tty
    /\ \E a \in ConfirmArgs :
        /\ args' = a
        /\ ops' = <<LogOp("prompt")>>
    /\ widget' = "confirm"
    /\ pc' = "prompt"
    /\ ttyChecks' = ttyChecks + 1
    /\ UNCHANGED <<blockVars, tty, loc, key, chunk, raw, cursorHidden, result, exitCode,
                   linesRead, line, untouched, fold, split,
                   frame, other>>

\* lines 389-393
confirmFallbackResult(a, r) ==
    IF r.null \/ trim(r.text) = <<>> THEN a.defaultBool
    ELSE LET lower == toLowerCase(trim(r.text))
         IN  lower = <<121>> \/ lower = <<121, 101, 115>>

\* A faulty variant of confirmPrompt: a blank first answer is asked for again.
confirmPromptAsksAgain ==
    /\ pc = "prompt"
    /\ widget = "confirm"
    /\ \E r \in PromptResults :
        /\ line' = r
        /\ IF linesRead = 0 /\ ~r.null /\ trim(r.text) = <<>>
           THEN pc' = "prompt" /\ UNCHANGED result
           ELSE /\ pc' = "returned"
                /\ result' = [NoLoc EXCEPT
                                !.confirmValue = confirmFallbackResult(args, r)]
    /\ linesRead' = linesRead + 1
    /\ ops' = <<>>
    /\ UNCHANGED <<blockVars, widget, args, tty, loc, key, chunk, raw, cursorHidden, exitCode,
                   ttyChecks, untouched, fold, split,
                   frame, other>>

\* prompt() returns and the fallback of confirm returns its result.
confirmPrompt ==
    /\ pc = "prompt"
    /\ widget = "confirm"
    /\ \E r \in PromptResults :
        /\ line' = r
        /\ result' = [NoLoc EXCEPT !.confirmValue = confirmFallbackResult(args, r)]
    /\ linesRead' = linesRead + 1
    /\ pc' = "returned"
    /\ ops' = <<>>
    /\ UNCHANGED <<blockVars, widget, args, tty, loc, key, chunk, raw, cursorHidden, exitCode,
                   ttyChecks, untouched, fold, split,
                   frame, other>>

\* The interactive path of confirm up to the first readKey: lines 396-414.
confirmStart ==
    /\ Callable
    /\ tty
    /\ \E a \in ConfirmArgs, failAt \in 0..2 :
        /\ args' = a
        /\ LET value == a.defaultBool
               t1 == setRaw(Term(raw, cursorHidden), TRUE)
               t2 == confirmRender(t1, value, failAt)
               tf == rawFinally(t2)
           IN  /\ fold' = [NoLoc EXCEPT !.confirmValue = a.defaultBool]
               /\ IF t2.err
                  THEN /\ Apply([tf EXCEPT !.ops = t2.ops \o @])
                       /\ pc' = "thrown"
                       /\ loc' = NoLoc
                  ELSE /\ Apply(t2)
                       /\ pc' = "await"
                       /\ loc' = [NoLoc EXCEPT !.confirmValue = value]
    /\ widget' = "confirm"
    /\ ttyChecks' = ttyChecks + 1
    /\ untouched' = TRUE
    /\ UNCHANGED <<blockVars, tty, key, chunk, result, exitCode, linesRead, line, split,
                   other>>

\* A faulty variant of confirmLoopBody: the interrupt branch ends the process without
\* setRaw(false).
confirmLoopBodyExitsRaw(t, value, k, failAt) ==
    IF k.type = "ctrl-c"
    THEN [t |-> t, value |-> value, out |-> "exit"]
    ELSE IF k.type = "enter"
    THEN [t |-> write(t, "\\n", 0, failAt), value |-> value, out |-> "break"]
    ELSE LET arrow == k.type \in {"left", "right", "up", "down"}
             v1 == IF arrow THEN ~value ELSE value
             t1 == IF arrow THEN confirmRender(t, v1, failAt) ELSE t
             yes == k.type = "char" /\ toLowerCase(k.char) = <<121>>
             no == k.type = "char" /\ ~yes /\ toLowerCase(k.char) = <<110>>
             v2 == IF yes THEN TRUE ELSE IF no THEN FALSE ELSE v1
             t2 == IF yes \/ no THEN confirmRender(t1, v2, failAt) ELSE t1
         IN  [t |-> t2, value |-> v2, out |-> "loop"]

\* A faulty variant of confirmLoopBody: the letters are compared without toLowerCase.
confirmLoopBodyCaseSensitive(t, value, k, failAt) ==
    IF k.type = "ctrl-c"
    THEN [t |-> setRaw(t, FALSE), value |-> value, out |-> "exit"]
    ELSE IF k.type = "enter"
    THEN [t |-> write(t, "\\n", 0, failAt), value |-> value, out |-> "break"]
    ELSE LET arrow == k.type \in {"left", "right", "up", "down"}
             v1 == IF arrow THEN ~value ELSE value
             t1 == IF arrow THEN confirmRender(t, v1, failAt) ELSE t
             yes == k.type = "char" /\ k.char = <<121>>
             no == k.type = "char" /\ ~yes /\ k.char = <<110>>
             v2 == IF yes THEN TRUE ELSE IF no THEN FALSE ELSE v1
             t2 == IF yes \/ no THEN confirmRender(t1, v2, failAt) ELSE t1
         IN  [t |-> t2, value |-> v2, out |-> "loop"]

\* A faulty variant of confirmLoopBody: escape leaves the loop as enter does.
confirmLoopBodyEscapeLeaves(t, value, k, failAt) ==
    IF k.type = "ctrl-c"
    THEN [t |-> setRaw(t, FALSE), value |-> value, out |-> "exit"]
    ELSE IF k.type \in {"enter", "escape"}
    THEN [t |-> write(t, "\\n", 0, failAt), value |-> value, out |-> "break"]
    ELSE LET arrow == k.type \in {"left", "right", "up", "down"}
             v1 == IF arrow THEN ~value ELSE value
             t1 == IF arrow THEN confirmRender(t, v1, failAt) ELSE t
             yes == k.type = "char" /\ toLowerCase(k.char) = <<121>>
             no == k.type = "char" /\ ~yes /\ toLowerCase(k.char) = <<110>>
             v2 == IF yes THEN TRUE ELSE IF no THEN FALSE ELSE v1
             t2 == IF yes \/ no THEN confirmRender(t1, v2, failAt) ELSE t1
         IN  [t |-> t2, value |-> v2, out |-> "loop"]

\* One turn of the loop: lines 416-442.
confirmLoopBody(t, value, k, failAt) ==
    IF k.type = "ctrl-c"
    THEN [t |-> setRaw(t, FALSE), value |-> value, out |-> "exit"]
    ELSE IF k.type = "enter"
    THEN [t |-> write(t, "\\n", 0, failAt), value |-> value, out |-> "break"]
    ELSE LET arrow == k.type \in {"left", "right", "up", "down"}
             v1 == IF arrow THEN ~value ELSE value
             t1 == IF arrow THEN confirmRender(t, v1, failAt) ELSE t
             yes == k.type = "char" /\ toLowerCase(k.char) = <<121>>
             no == k.type = "char" /\ ~yes /\ toLowerCase(k.char) = <<110>>
             v2 == IF yes THEN TRUE ELSE IF no THEN FALSE ELSE v1
             t2 == IF yes \/ no THEN confirmRender(t1, v2, failAt) ELSE t1
         IN  [t |-> t2, value |-> v2, out |-> "loop"]

\* confirm runs one turn of its loop on the key read.

confirmKey ==
    /\ pc = "key"
    /\ widget = "confirm"
    /\ \E failAt \in 0..confirmLoopBody(Term(raw, cursorHidden), loc.confirmValue,
                                        key, 0).t.n :
        LET b == confirmLoopBody(Term(raw, cursorHidden), loc.confirmValue, key, failAt)
            tf == rawFinally(b.t)
        IN  /\ Outcome(b.t, b.out, tf,
                       [loc EXCEPT !.confirmValue = b.value],
                       [NoLoc EXCEPT !.confirmValue = b.value],
                       [fold EXCEPT !.confirmValue = ConfirmTable(@, key)])
    /\ UNCHANGED <<blockVars, widget, args, tty, ttyChecks, linesRead, line, other>>

----------------------------------------------------------------------------
\* The read of readKey rejects: the exception surfaces at the await inside
\* the try block, and the widget leaves through its finally block.
readKeyRejects ==
    /\ pc = "await"
    /\ \E finFail \in BOOLEAN :
        LET t == [Term(raw, cursorHidden) EXCEPT !.err = TRUE]
            tf == IF widget = "select" THEN selectFinally(t, finFail) ELSE rawFinally(t)
        IN  /\ finFail => widget = "select"
            /\ Outcome(t, "loop", tf, loc, NoLoc, fold)
    /\ UNCHANGED <<blockVars, widget, args, tty, ttyChecks, linesRead, line, other>>

Next ==
    \/ Resume
    \/ readKey
    \/ selectEmpty
    \/ selectFallback
    \/ selectPrompt
    \/ selectStart
    \/ selectKey
    \/ inputFallback
    \/ inputPrompt
    \/ inputStart
    \/ inputKey
    \/ ratingFallback
    \/ ratingPrompt
    \/ ratingStart
    \/ ratingKey
    \/ confirmFallback
    \/ confirmPrompt
    \/ confirmStart
    \/ confirmKey
    \/ readKeyRejects

Spec == Init /\ [][Next]_vars

----------------------------------------------------------------------------
(* Overlapping calls.  Nothing in the widgets prevents a caller from        *)
(* starting a second interactive call while the first awaits a key: both    *)
(* then share the terminal's raw-mode flag.  The model follows an input     *)
(* call that awaits its first key when a second call (input or rating) is   *)
(* started, and takes up the first call again when the second is over.      *)

\* The caller starts another call without awaiting this one: this call
\* stays where it is, awaiting its first key.
Suspend ==
    /\ pc = "await"
    /\ untouched
    /\ widget = "input"
    /\ other.state = "none"
    /\ other' = [state |-> "waiting", widget |-> widget, args |-> args,
                 loc |-> loc, fold |-> fold, frame |-> frame]
    /\ pc' = "idle"
    /\ widget' = "none"
    /\ args' = NoArgs
    /\ loc' = NoLoc
    /\ fold' = NoLoc
    /\ frame' = NoLoc
    /\ ops' = <<>>
    /\ untouched' = FALSE
    /\ ttyChecks' = 0
    /\ UNCHANGED <<blockVars, tty, key, chunk, raw, cursorHidden, result, exitCode, linesRead,
                   line, split>>

\* The second call is over (it returned or threw); the first is still in
\* its loop, awaiting its first key.
Continue ==
    /\ pc \in {"returned", "thrown"}
    /\ other.state = "waiting"
    /\ pc' = "await"
    /\ widget' = other.widget
    /\ args' = other.args
    /\ loc' = other.loc
    /\ fold' = other.fold
    /\ frame' = other.frame
    /\ other' = [NoOther EXCEPT !.state = "done"]
    /\ key' = NoKey
    /\ chunk' = <<>>
    /\ split' = <<>>
    /\ ops' = <<>>
    /\ result' = NoLoc
    /\ untouched' = TRUE
    /\ ttyChecks' = 1
    /\ linesRead' = 0
    /\ line' = NoLine
    /\ UNCHANGED <<blockVars, tty, raw, cursorHidden, exitCode>>

OverlapNext ==
    \/ Suspend
    \/ Continue
    \/ Resume
    \/ readKey
    \/ inputStart
    \/ inputKey
    \/ ratingStart
    \/ ratingKey
    \/ readKeyRejects

OverlapSpec == Init /\ [][OverlapNext]_vars

----------------------------------------------------------------------------
(* Properties *)

Last(q) == q[Len(q)]

\* The current (or last) call took the interactive path.
Interactive == tty /\ widget # "none" /\ ~(widget = "select" /\ args.len = 0)

\* The call is over: it returned, it propagated an error, or the process ended.
Ended == pc \in {"returned", "thrown", "exited"}

\* C1: raw mode never leaks.  Whenever no interactive loop is executing
\* (before a call, on the fallback path, after a normal return, after an
\* error was propagated, after the process was ended by an interrupt key),
\* raw mode is disengaged.
C1_RawModeNeverLeaks == raw => pc \in {"await", "key"}

\* A call left its loop on an error: a write inside a turn of the loop threw.
C1_Witness ==
    /\ pc = "thrown"
    /\ Interactive
    /\ key.type = "char"
    /\ RawOp(FALSE) \in {ops[i] : i \in 1..Len(ops)}
    /\ ~raw

\* C2 as stated: once an interrupt key has been handled, raw mode is
\* disengaged and after that the process has ended with status 130; no
\* result was returned and no further key is read.
C2_InterruptEndsProcess ==
    (key.type = "ctrl-c" /\ pc # "key") =>
        /\ pc = "exited"
        /\ exitCode = 130
        /\ ~raw
        /\ ops # <<>> /\ Last(ops) = RawOp(FALSE)
        /\ result = NoLoc
        /\ ~ENABLED readKey

\* C2, amended: an interrupt key disengages raw mode and then ends the
\* process with status 130 in input, rating and confirm, and in select unless
\* its write of the show-cursor sequence throws; then select propagates that
\* error, with raw mode disengaged by the finally block.  Either way no
\* result is returned and no further key is read.
C2_InterruptEndsProcessOrThrows ==
    (key.type = "ctrl-c" /\ pc # "key") =>
        /\ pc \in {"exited", "thrown"}
        /\ ~raw
        /\ result = NoLoc
        /\ ~ENABLED readKey
        /\ pc = "exited" => /\ exitCode = 130
                            /\ ops # <<>> /\ Last(ops) = RawOp(FALSE)
        /\ pc = "thrown" => /\ widget = "select"
                            /\ exitCode = -1
                            /\ ops # <<>> /\ Head(ops) = RawOp(FALSE)

\* Select was interrupted: the cursor is shown, raw mode disengaged, the
\* process ended.
C2_Witness ==
    /\ key.type = "ctrl-c"
    /\ pc = "exited"
    /\ widget = "select"
    /\ exitCode = 130
    /\ ops = <<WriteOp(showCursor, 0), RawOp(FALSE)>>

\* A call on the fallback path has touched neither raw mode nor the cursor
\* and has read no key: its only output so far is cooked-mode printing.
FallbackQuiet ==
    /\ ~raw
    /\ ~cursorHidden
    /\ key = NoKey
    /\ \A i \in 1..Len(ops) : ops[i].op = "log"

\* C3 as stated: when standard input is not a terminal, every widget call
\* checks the terminal status once, reads exactly one line and returns, and
\* never engages or disengages raw mode, reads a key or hides the cursor.
C3_FallbackPath ==
    (~tty /\ widget # "none") =>
        /\ FallbackQuiet
        /\ pc \in {"prompt", "returned"}
        /\ ttyChecks = 1
        /\ linesRead = IF pc = "returned" THEN 1 ELSE 0

\* C3, amended: the same for every widget call except select with an empty
\* option list, which returns before the terminal check and reads no line.
C3_FallbackPathNonEmpty ==
    (~tty /\ widget # "none") =>
        /\ FallbackQuiet
        /\ pc \in {"prompt", "returned"}
        /\ IF widget = "select" /\ args.len = 0
           THEN pc = "returned" /\ ttyChecks = 0 /\ linesRead = 0
           ELSE ttyChecks = 1 /\ linesRead = IF pc = "returned" THEN 1 ELSE 0

\* A fallback call returned a value parsed from its one line.
C3_Witness ==
    /\ ~tty
    /\ pc = "returned"
    /\ widget = "rating"
    /\ linesRead = 1
    /\ ~line.null
    /\ result.ratingValue # args.defaultRating

\* C4 as stated: on every exit path of an interactive call, disengaging raw
\* mode is the last terminal-affecting action.
C4_DisengageIsLast ==
    (Interactive /\ Ended) => (ops # <<>> /\ Last(ops) = RawOp(FALSE))

\* C4, amended: disengaging raw mode is the last terminal-affecting action
\* on every exit path of input, rating and confirm and on the interrupt path
\* of select.  When select leaves by enter or by an error, its finally block
\* disengages raw mode and then writes the show-cursor sequence: that one
\* write follows the disengagement (none does if the write throws).
C4_DisengageThenShowCursor ==
    (Interactive /\ Ended) =>
        /\ ops # <<>>
        /\ IF widget = "select" /\ pc # "exited"
           THEN \/ pc = "thrown" /\ Last(ops) = RawOp(FALSE)
                \/ /\ Len(ops) >= 2
                   /\ ops[Len(ops) - 1] = RawOp(FALSE)
                   /\ Last(ops) = WriteOp(showCursor, 0)
           ELSE Last(ops) = RawOp(FALSE)
        /\ (widget = "select" /\ pc = "returned") => Last(ops) = WriteOp(showCursor, 0)

\* Select returned on enter: setRaw(false), then the show-cursor write.
C4_Witness ==
    /\ Interactive
    /\ widget = "select"
    /\ pc = "returned"
    /\ key.type = "enter"
    /\ ops = <<RawOp(FALSE), WriteOp(showCursor, 0)>>

\* C5: interactive select with a non-empty option list and defaultIndex in
\* [0, len-1] returns, at the first enter, the fold of the keys before it
\* from defaultIndex under SelectTable: up and down move by one, clamped; a
\* digit key d in 1..len jumps to d-1; every other key changes nothing.
C5_SelectFold ==
    (/\ Interactive
     /\ widget = "select"
     /\ pc = "returned"
     /\ args.defaultIndex \in 0..(args.len - 1))
        => result.selected = fold.selected

\* C6: interactive rating with min <= default <= max returns, at the first
\* enter, the fold of the keys before it from default under RatingTable:
\* left and down decrement, right and up increment, clamped; a digit key d
\* in [min, max] jumps to d; every other key changes nothing.
C6_RatingFold ==
    (/\ Interactive
     /\ widget = "rating"
     /\ pc = "returned"
     /\ args.min <= args.defaultRating
     /\ args.defaultRating <= args.max)
        => result.ratingValue = fold.ratingValue

\* C7: interactive input.  The buffer starts empty; a char event appends its
\* text; backspace removes the last code unit of a non-empty buffer and does
\* nothing to an empty one (InputTable); the first enter returns the buffer
\* if it is non-empty and the default otherwise.
C7_InputBuffer ==
    (Interactive /\ widget = "input") =>
        /\ pc \in {"await", "key"} => loc.inputValue = fold.inputValue
        /\ pc = "returned" =>
              result.inputValue = IF fold.inputValue # <<>>
                                  THEN fold.inputValue
                                  ELSE args.defaultText

\* Input returned a typed buffer of two code units, not its default.
C7_Witness ==
    /\ Interactive
    /\ widget = "input"
    /\ pc = "returned"
    /\ ~untouched
    /\ Len(result.inputValue) = 2
    /\ result.inputValue[1] # result.inputValue[2]
    /\ result.inputValue # args.defaultText

\* C8: interactive confirm.  From the default, each arrow key negates the
\* value, y or Y sets it, n or N clears it, every other key leaves it
\* (ConfirmTable); the first enter returns the current value.
C8_ConfirmFold ==
    (Interactive /\ widget = "confirm") =>
        /\ pc \in {"await", "key"} => loc.confirmValue = fold.confirmValue
        /\ pc = "returned" => result.confirmValue = fold.confirmValue

\* Confirm returned the opposite of its default after keys were handled.
C8_Witness ==
    /\ Interactive
    /\ widget = "confirm"
    /\ pc = "returned"
    /\ ~untouched
    /\ result.confirmValue # args.defaultBool

\* C9: on the interactive path a key sequence of only enter returns the
\* default: defaultIndex for select (non-empty list, defaultIndex in
\* [0, len-1]), the default text for input, the default value for rating,
\* the default boolean for confirm.
C9_EnterReturnsDefault ==
    (Interactive /\ pc = "returned" /\ untouched) =>
        /\ key.type = "enter"
        /\ (widget = "select" /\ args.defaultIndex \in 0..(args.len - 1))
              => result.selected = args.defaultIndex
        /\ widget = "input" => result.inputValue = args.defaultText
        /\ widget = "rating" => result.ratingValue = args.defaultRating
        /\ widget = "confirm" => result.confirmValue = args.defaultBool

\* Input with a non-empty default returned on an untouched enter.
C9_Witness ==
    /\ Interactive
    /\ pc = "returned"
    /\ untouched
    /\ widget = "input"
    /\ args.defaultText # <<>>
    /\ result.inputValue = args.defaultText

\* The fallback answer table of confirm in the specification (section 4.3):
\* blank gives the default, y or yes (any case) true, n or no false,
\* anything else the default.
ConfirmFallbackTable(d, r) ==
    LET lower == toLowerCase(trim(r.text)) IN
    IF r.null \/ lower = <<>> THEN d
    ELSE IF lower \in {<<121>>, <<121, 101, 115>>} THEN TRUE
    ELSE IF lower \in {<<110>>, <<110, 111>>} THEN FALSE
    ELSE d

\* C10: fallback confirm returns the default for a blank line, true for y
\* or yes in any letter case, false for n or no, and the default for any
\* other non-blank line.
C10_FallbackConfirm ==
    (~tty /\ widget = "confirm" /\ pc = "returned") =>
        result.confirmValue = ConfirmFallbackTable(args.defaultBool, line)

\* Blank: empty or white space only.
IsBlank(s) == \A i \in 1..Len(s) : IsWhiteSpace(s[i])

\* s without its leading and trailing white space, for s not blank: the
\* part of s between its first and its last code unit that is not white
\* space.
Stripped(s) ==
    LET solid == {i \in 1..Len(s) : ~IsWhiteSpace(s[i])}
        first == CHOOSE i \in solid : \A j \in solid : i <= j
        last == CHOOSE i \in solid : \A j \in solid : j <= i
    IN  SubSeq(s, first, last)

\* Ten to the power k.
RECURSIVE Pow10(_)
Pow10(k) == IF k = 0 THEN 1 ELSE 10 * Pow10(k - 1)

\* The number a run of decimal digits writes.
RECURSIVE DecimalValue(_)
DecimalValue(s) ==
    IF s = <<>> THEN 0
    ELSE (Head(s) - 48) * Pow10(Len(s) - 1) + DecimalValue(Tail(s))

\* s is an integer numeral: an optional sign and one or more decimal
\* digits, nothing else.
IsNumeral(s) ==
    LET d == IF s # <<>> /\ Head(s) \in {43, 45} THEN Tail(s) ELSE s
    IN  d # <<>> /\ \A i \in 1..Len(d) : IsDigit(d[i])

NumeralValue(s) ==
    IF Head(s) = 45 THEN 0 - DecimalValue(Tail(s))
    ELSE IF Head(s) = 43 THEN DecimalValue(Tail(s))
    ELSE DecimalValue(s)

\* The fallback answer table of select in the specification (section 4.3):
\* blank gives the default index, an integer in [1, len] that integer minus
\* one, anything else the default index.
SelectFallbackTable(a, r) ==
    IF r.null \/ IsBlank(r.text) THEN a.defaultIndex
    ELSE IF /\ IsNumeral(Stripped(r.text))
            /\ NumeralValue(Stripped(r.text)) \in 1..a.len
         THEN NumeralValue(Stripped(r.text)) - 1
         ELSE a.defaultIndex

\* C11: fallback select with a non-empty option list returns defaultIndex
\* for a blank line or end of input, n-1 for a line that is an integer n
\* with 1 <= n <= len, and defaultIndex for every other line; it never
\* raises a fault.
C11_FallbackSelect ==
    (~tty /\ widget = "select" /\ args.len > 0 /\ pc # "prompt") =>
        /\ pc = "returned"
        /\ result.selected = SelectFallbackTable(args, line)

\* The longest run of decimal digits s starts with.
DigitPrefix(s) ==
    LET k == CHOOSE k \in 0..Len(s) :
                 /\ \A i \in 1..k : IsDigit(s[i])
                 /\ k < Len(s) => ~IsDigit(s[k + 1])
    IN  SubSeq(s, 1, k)

\* s parses as an integer: after an optional sign it starts with a decimal
\* digit.  The integer is the one its sign and leading digits write.
ParsesAsInteger(s) ==
    LET d == IF s # <<>> /\ Head(s) \in {43, 45} THEN Tail(s) ELSE s
    IN  DigitPrefix(d) # <<>>

ParsedInteger(s) ==
    IF Head(s) = 45 THEN 0 - DecimalValue(DigitPrefix(Tail(s)))
    ELSE IF Head(s) = 43 THEN DecimalValue(DigitPrefix(Tail(s)))
    ELSE DecimalValue(DigitPrefix(s))

C13_FallbackInput ==
    (~tty /\ widget = "input" /\ pc # "prompt") =>
        /\ pc = "returned"
        /\ result.inputValue =
              IF line.null \/ IsBlank(line.text) THEN args.defaultText
              ELSE Stripped(line.text)

\* Fallback input returned a line shorter than the one it read: white
\* space was removed at both ends.
C13_Witness ==
    /\ ~tty
    /\ widget = "input"
    /\ pc = "returned"
    /\ ~line.null
    /\ Len(line.text) = 3
    /\ Len(result.inputValue) = 1
    /\ IsWhiteSpace(line.text[1])
    /\ IsWhiteSpace(line.text[3])
    /\ args.defaultText # <<>>

\* C14: key decoder, control bytes.  Every non-empty chunk gives exactly
\* one key, and its leading byte alone decides: 0x03 gives interrupt, 13
\* enter, 127 or 8 backspace, whatever bytes follow in the chunk.
C14_ControlBytes ==
    (pc = "key" /\ chunk # <<>>) =>
        /\ key.type \in {"char", "enter", "escape", "backspace", "up", "down",
                          "left", "right", "ctrl-c", "unknown"}
        /\ chunk[1] = 3 => key = Key("ctrl-c")
        /\ chunk[1] = 13 => key = Key("enter")
        /\ chunk[1] \in {127, 8} => key = Key("backspace")

\* Byte 8 with byte 13 behind it in one read was decoded to backspace.
C14_Witness ==
    /\ pc = "key"
    /\ chunk = <<8, 13>>
    /\ key = Key("backspace")

\* The arrow a final byte of an escape sequence names (section 4.1).
ArrowOf(b) ==
    CASE b = 65 -> "up" [] b = 66 -> "down" [] b = 67 -> "right" [] b = 68 -> "left"

\* C15: key decoder, escape sequences.  The single byte 27 decodes to
\* escape; a chunk starting 27, 0x5B, then 0x41 / 0x42 / 0x43 / 0x44 decodes
\* to up / down / right / left; every other chunk of more than one byte
\* that starts with 27 decodes to unknown.
C15_EscapeSequences ==
    (pc = "key" /\ chunk # <<>> /\ chunk[1] = 27) =>
        key = IF Len(chunk) = 1 THEN Key("escape")
              ELSE IF Len(chunk) >= 3 /\ chunk[2] = 91 /\ chunk[3] \in 65..68
                   THEN Key(ArrowOf(chunk[3]))
                   ELSE Key("unknown")

\* ESC [ D in one read was decoded to left.
C15_Witness ==
    /\ pc = "key"
    /\ chunk = <<27, 91, 68>>
    /\ key = Key("left")

\* C16: key decoder, text.  A chunk whose leading byte is none of 0x03, 13,
\* 127, 8, 27 decodes to one char event carrying the text of the whole
\* chunk: all its bytes decoded as UTF-8 (a chunk of ASCII bytes is its own
\* text), so a control byte after the first is part of the text.
C16_TextChunk ==
    (pc = "key" /\ chunk # <<>> /\ chunk[1] \notin {3, 13, 127, 8, 27}) =>
        /\ key.type = "char"
        /\ key.char = TextDecode(chunk)
        /\ (\A i \in 1..Len(chunk) : chunk[i] < 128) => key.char = chunk

\* y with byte 13 behind it in one read is one char event of two code
\* units.
C16_Witness ==
    /\ pc = "key"
    /\ chunk = <<121, 13>>
    /\ key = CharKey(<<121, 13>>)

\* C17: when the three bytes of an arrow sequence arrive split across two
\* consecutive reads (27 | 0x5B X, or 27 0x5B | X), each of the two pieces
\* decodes to escape or unknown, never to an arrow or a char event.
C17_SplitArrowIsInert ==
    (pc = "key" /\ (chunk \in ArrowHeads \/ split # <<>>)) =>
        key.type \in {"escape", "unknown"}

\* C18: an end-of-stream or zero-byte read decodes to unknown, and the
\* turn of the loop that handles it, in every interactive widget, changes
\* no state, produces no output, raises no fault and leaves the loop
\* awaiting the next key with raw mode still engaged.
C18_EmptyReadIsInert ==
    [][(pc = "key" /\ chunk = <<>>) =>
          /\ key = Key("unknown")
          /\ raw
          /\ pc' = "await"
          /\ ops' = <<>>
          /\ UNCHANGED <<loc, raw, cursorHidden, widget, args, result, exitCode>>]_vars

\* Rating, after a key was handled, reads nothing and decodes it to
\* unknown.
C18_Witness ==
    /\ pc = "key"
    /\ widget = "rating"
    /\ ~untouched
    /\ chunk = <<>>
    /\ key = Key("unknown")
    /\ raw

\* C19 as stated: an interactive call leaves its loop only by an enter key
\* (it returns) or an interrupt key (the process ends); no other key ends
\* it.
C19_OnlyEnterOrInterruptEnds ==
    (Interactive /\ Ended /\ key # NoKey) =>
        /\ key.type \in {"enter", "ctrl-c"}
        /\ pc = IF key.type = "enter" THEN "returned" ELSE "exited"

\* The turn of the loop of the widget that is running.
KeyTurn == selectKey \/ inputKey \/ ratingKey \/ confirmKey

\* C19, amended: an interactive call returns only on an enter key and ends
\* the process only on an interrupt key; the turn of the loop for any other
\* key awaits the next key, unless a write of its redraw throws and the
\* error is propagated.  Once enter or interrupt has been read the call
\* completes (the turn of the loop can run, and however it runs the call
\* is over after it); while neither is read the call does not return.
C19_EndsOnEnterOrInterruptOrError ==
    /\ []((Interactive /\ pc = "returned") => key.type = "enter")
    /\ [](pc = "exited" => key.type = "ctrl-c")
    /\ []((pc = "key" /\ key.type \in {"enter", "ctrl-c"}) => ENABLED KeyTurn)
    /\ [][(pc = "key" /\ key.type \in {"enter", "ctrl-c"}) => Ended']_vars
    /\ [][(pc = "key" /\ key.type \notin {"enter", "ctrl-c"})
            => pc' \in {"await", "thrown"}]_vars
    /\ [][(pc = "key" /\ key.type \in {"escape", "unknown"}) => pc' = "await"]_vars

\* Confirm has handled an escape key and awaits the next key.
C19_Witness ==
    /\ pc = "await"
    /\ widget = "confirm"
    /\ ~untouched
    /\ split = <<ESCAPE>>
    /\ raw

\* C20: on the interactive path raw mode is engaged before the initial
\* frame is written and before the first key is read, and it stays engaged
\* in every state in which the widget awaits a key.
C20_RawWhileAwaiting ==
    /\ pc \in {"await", "key"} => raw
    /\ (pc = "await" /\ untouched) =>
          /\ Len(ops) >= 2
          /\ Head(ops) = RawOp(TRUE)
          /\ \A i \in 2..Len(ops) : ops[i].op = "write"

\* Select awaits its first key: setRaw(true), the hide-cursor write, then
\* the frame.
C20_Witness ==
    /\ pc = "await"
    /\ untouched
    /\ widget = "select"
    /\ raw
    /\ Len(ops) > 2
    /\ ops[1] = RawOp(TRUE)
    /\ ops[2] = WriteOp(hideCursor, 0)

\* C21: whenever an interactive widget awaits a key, the frame most
\* recently written was rendered from the widget's current state (selected
\* index, buffer, rating value, boolean): a key that changes the state is
\* followed by a redraw of the new state before the next read.
C21_FrameShowsState ==
    (Interactive /\ pc = "await") => frame = loc

\* Input awaits a key after keys were handled; the frame shows its buffer
\* of two code units.
C21_Witness ==
    /\ pc = "await"
    /\ widget = "input"
    /\ ~untouched
    /\ Len(loc.inputValue) = 2
    /\ frame.inputValue = loc.inputValue

\* C22: raw mode is not reference-counted.  When two interactive calls
\* overlap, the call that finishes first disengages raw mode although the
\* other is still in its loop: that call then awaits a key with raw mode
\* disengaged.  Raw mode is off in a loop only after such an overlap.
C22_RawModeNotCounted ==
    /\ [](Ended => ~raw)
    /\ []((pc \in {"await", "key"} /\ ~raw) => other.state = "done")
    /\ [][(other.state = "waiting" /\ other'.state = "done")
            => (pc' = "await" /\ ~raw')]_vars

\* The first call awaits its first key, the second call is over, and raw
\* mode is disengaged.
C22_Witness ==
    /\ pc = "await"
    /\ widget = "input"
    /\ untouched
    /\ other.state = "done"
    /\ ~raw

\* The writes among the operations q that carry (a part of) a frame: all
\* but the cursor-visibility sequences and the cursor-up before a repaint.
FrameWrites(q) ==
    {i \in 1..Len(q) : /\ q[i].op = "write"
                       /\ q[i].text \notin {hideCursor, showCursor, "cursorUp"}}

\* C23: every redraw of every widget, the initial frame and each repaint,
\* is exactly one write call that carries the complete frame.
C23_OneWritePerRedraw ==
    (Interactive /\ pc = "await" /\ ops # <<>>) => Cardinality(FrameWrites(ops)) = 1

\* The lines the cursor has moved down after the operations q of select:
\* the question and every option end with a line break, cursorUp(n) moves up
\* n lines, nothing else changes the line.
RECURSIVE LinesMoved(_)
LinesMoved(q) ==
    IF q = <<>> THEN 0
    ELSE LinesMoved(Tail(q))
         + (IF Head(q).op # "write" THEN 0
            ELSE IF Head(q).text = "cursorUp" THEN 0 - Head(q).n
            ELSE IF Head(q).text \in {"question", "option", "optionSelected"} THEN 1
            ELSE 0)

CursorUps(q) == {i \in 1..Len(q) : q[i].op = "write" /\ q[i].text = "cursorUp"}

\* C24: in interactive select the initial frame is preceded by no cursor-up
\* and leaves the cursor len + 1 lines below the top of the frame; every
\* repaint starts with one cursor-up of exactly len + 1 lines and emits
\* len + 1 lines again, so the frame is overwritten in place and the cursor
\* rests len + 1 lines below its top whenever the widget awaits a key.
C24_RepaintInPlace ==
    (Interactive /\ widget = "select" /\ pc = "await") =>
        /\ untouched =>
              /\ CursorUps(ops) = {}
              /\ LinesMoved(ops) = args.len + 1
        /\ (~untouched /\ ops # <<>>) =>
              /\ CursorUps(ops) = {1}
              /\ ops[1].n = args.len + 1
              /\ LinesMoved(ops) = 0
              /\ LinesMoved(Tail(ops)) = args.len + 1

\* Select with two options repainted its frame after a key: the repaint
\* starts with cursorUp(3).
C24_Witness ==
    /\ pc = "await"
    /\ widget = "select"
    /\ ~untouched
    /\ args.len = 2
    /\ ops # <<>>
    /\ ops[1] = WriteOp("cursorUp", 3)
    /\ Len(ops) = 7

\* C25: in interactive select with a non-empty option list and defaultIndex
\* in [0, len-1], the selected index is in [0, len-1] in every state any key
\* sequence reaches, and so is the value returned.
C25_SelectedInRange ==
    (/\ Interactive
     /\ widget = "select"
     /\ args.defaultIndex \in 0..(args.len - 1)) =>
        /\ pc \in {"await", "key"} => loc.selected \in 0..(args.len - 1)
        /\ pc = "returned" => result.selected \in 0..(args.len - 1)

\* Select returned the last index after moving there from a default in
\* range.
C25_Witness ==
    /\ Interactive
    /\ widget = "select"
    /\ pc = "returned"
    /\ ~untouched
    /\ args.len = MaxOptions
    /\ args.defaultIndex = 0
    /\ result.selected = args.len - 1

\* C26: in interactive rating with min <= default <= max, the value is in
\* [min, max] in every state any key sequence reaches, and so is the value
\* returned.
C26_RatingInRange ==
    (/\ Interactive
     /\ widget = "rating"
     /\ args.min <= args.defaultRating
     /\ args.defaultRating <= args.max) =>
        /\ pc \in {"await", "key"} => loc.ratingValue \in args.min..args.max
        /\ pc = "returned" => result.ratingValue \in args.min..args.max

\* Rating returned its maximum after moving there from its minimum.
C26_Witness ==
    /\ Interactive
    /\ widget = "rating"
    /\ pc = "returned"
    /\ ~untouched
    /\ args.min < args.max
    /\ args.defaultRating = args.min
    /\ result.ratingValue = args.max

\* The keys the transition tables do not mention, per widget: escape and
\* unknown everywhere; left, right, backspace, chars that are not a digit
\* key in 1..len, up at index 0 and down at index len-1 in select; arrows
\* in input; backspace, digit keys outside [min, max], a decrement at min
\* and an increment at max in rating; backspace and chars other than
\* y/Y/n/N in confirm.
OutsideTable ==
    \/ key.type \in {"escape", "unknown"}
    \/ /\ widget = "select"
       /\ \/ key.type \in {"left", "right", "backspace"}
          \/ key.type = "char"
             /\ ~(IsDigitKey(key) /\ 1 <= DigitOf(key) /\ DigitOf(key) <= args.len)
          \/ key.type = "up" /\ loc.selected = 0
          \/ key.type = "down" /\ loc.selected = args.len - 1
    \/ /\ widget = "input"
       /\ key.type \in {"up", "down", "left", "right"}
    \/ /\ widget = "rating"
       /\ \/ key.type = "backspace"
          \/ IsDigitKey(key) /\ ~(args.min <= DigitOf(key) /\ DigitOf(key) <= args.max)
          \/ key.type \in {"left", "down"} /\ loc.ratingValue = args.min
          \/ key.type \in {"right", "up"} /\ loc.ratingValue = args.max
    \/ /\ widget = "confirm"
       /\ \/ key.type = "backspace"
          \/ key.type = "char" /\ key.char \notin {<<121>>, <<89>>, <<110>>, <<78>>}

\* C27: a key outside the widget's transition table leaves the widget's
\* state unchanged and keeps the call in its loop, awaiting the next key.
C27_OutsideTableIsNoOp ==
    [][(Interactive /\ pc = "key" /\ OutsideTable) =>
           (pc' = "await" /\ widget' = widget /\ loc' = loc)]_vars

FirstLocals(w, a) ==
    IF w = "select" THEN [NoLoc EXCEPT !.selected = a.defaultIndex]
    ELSE IF w = "input" THEN NoLoc
    ELSE IF w = "rating" THEN [NoLoc EXCEPT !.ratingValue = a.defaultRating]
    ELSE [NoLoc EXCEPT !.confirmValue = a.defaultBool]

\* The widget state after one turn of the loop, from the state before it,
\* the key and the arguments alone, on a terminal that has seen no call
\* before.
NextLocals(w, a, l, k) ==
    LET fresh == [raw |-> TRUE, hidden |-> FALSE, ops |-> <<>>, n |-> 0,
                  err |-> FALSE, frame |-> NoLoc] IN
    IF w = "select"
    THEN [l EXCEPT !.selected = selectLoopBody(fresh, @, k, a.len, 0).selected]
    ELSE IF w = "input"
    THEN [l EXCEPT !.inputValue = inputLoopBody(fresh, @, k, a.defaultText, 0).value]
    ELSE IF w = "rating"
    THEN [l EXCEPT !.ratingValue = ratingLoopBody(fresh, @, k, a.min, a.max, 0).value]
    ELSE [l EXCEPT !.confirmValue = confirmLoopBody(fresh, @, k, 0).value]

\* The value an interactive call returns, from its widget state and its
\* arguments alone.
LoopResult(w, a, l) ==
    IF w = "select" THEN [NoLoc EXCEPT !.selected = l.selected]
    ELSE IF w = "input"
    THEN [NoLoc EXCEPT !.inputValue = inputReturn(l.inputValue, a.defaultText)]
    ELSE IF w = "rating" THEN [NoLoc EXCEPT !.ratingValue = l.ratingValue]
    ELSE [NoLoc EXCEPT !.confirmValue = l.confirmValue]

\* The value a fallback call returns, from its arguments and the line read
\* alone.
LineResult(w, a, r) ==
    IF w = "select" THEN [NoLoc EXCEPT !.selected = selectFallbackResult(a, r)]
    ELSE IF w = "input" THEN [NoLoc EXCEPT !.inputValue = inputFallbackResult(a, r)]
    ELSE IF w = "rating" THEN [NoLoc EXCEPT !.ratingValue = ratingFallbackResult(a, r)]
    ELSE [NoLoc EXCEPT !.confirmValue = confirmFallbackResult(a, r)]

C30_EmptySelect ==
    /\ [](widget = "select" /\ args.len = 0 =>
            /\ pc = "returned"
            /\ result = [NoLoc EXCEPT !.selected = -1]
            /\ ops = <<>>
            /\ linesRead = 0
            /\ key = NoKey /\ chunk = <<>>
            /\ line = NoLine
            /\ ~raw)
    /\ [][(widget' = "select" /\ args'.len = 0) =>
            (raw' = raw /\ cursorHidden' = cursorHidden)]_vars

\* Select with no options has returned -1 on a terminal.
C30_Witness ==
    /\ widget = "select"
    /\ args.len = 0
    /\ tty
    /\ pc = "returned"
    /\ result.selected = -1

\* A line the fallback of select or rating rejects: it is not blank, and
\* either it does not start with an integer or it is an integer numeral
\* outside [lo, hi].
RejectedLine(r, lo, hi) ==
    /\ ~r.null
    /\ ~IsBlank(r.text)
    /\ \/ ~ParsesAsInteger(Stripped(r.text))
       \/ /\ IsNumeral(Stripped(r.text))
          /\ NumeralValue(Stripped(r.text)) \notin lo..hi

\* The interactive path of select can start, without a fault, from a
\* default outside the option list.
selectStartsOutOfRange ==
    selectStart /\ pc' = "await" /\ args'.defaultIndex \notin 0..(args'.len - 1)

\* The interactive path of rating can start, without a fault, from a
\* default outside [min, max].
ratingStartsOutOfRange ==
    ratingStart /\ pc' = "await" /\ args'.defaultRating \notin args'.min..args'.max

\* C31: neither select nor rating validates its default.  With a default
\* outside the range the interactive call starts in that state without a
\* fault, holds it until a key changes it, and returns it on an immediate
\* enter; the fallback path returns it for end of input, a blank line or a
\* rejected line, and ends by returning.
C31_DefaultNotValidated ==
    /\ []((widget = "select" /\ args.len > 0
           /\ args.defaultIndex \notin 0..(args.len - 1)) =>
            /\ (tty /\ untouched /\ pc \in {"await", "key"}) =>
                   loc.selected = args.defaultIndex
            /\ (tty /\ untouched /\ pc = "returned") =>
                   result.selected = args.defaultIndex
            /\ ~tty => pc \in {"prompt", "returned"}
            /\ (~tty /\ pc = "returned"
                /\ (line.null \/ IsBlank(line.text) \/ RejectedLine(line, 1, args.len))) =>
                   result.selected = args.defaultIndex)
    /\ []((widget = "rating" /\ args.defaultRating \notin args.min..args.max) =>
            /\ (tty /\ untouched /\ pc \in {"await", "key"}) =>
                   loc.ratingValue = args.defaultRating
            /\ (tty /\ untouched /\ pc = "returned") =>
                   result.ratingValue = args.defaultRating
            /\ ~tty => pc \in {"prompt", "returned"}
            /\ (~tty /\ pc = "returned"
                /\ (line.null \/ IsBlank(line.text)
                    \/ RejectedLine(line, args.min, args.max))) =>
                   result.ratingValue = args.defaultRating)
    /\ []((pc = "idle" /\ tty) =>
            (ENABLED selectStartsOutOfRange /\ ENABLED ratingStartsOutOfRange))

\* Interactive select started from default index -1 and an immediate enter
\* returned -1.
C31_Witness ==
    /\ Interactive
    /\ widget = "select"
    /\ args.len > 0
    /\ args.defaultIndex = -1
    /\ untouched
    /\ pc = "returned"
    /\ result.selected = -1

\* The bytes of the first keystroke of a chunk led by a control byte or an
\* arrow sequence; the chunk itself otherwise.
LeadOf(c) ==
    IF c # <<>> /\ c[1] \in {CTRL_C, ENTER, BACKSPACE, DEL} THEN <<c[1]>>
    ELSE IF Len(c) >= 3 /\ SubSeq(c, 1, 3) \in ArrowSequences THEN SubSeq(c, 1, 3)
    ELSE c

\* The key the first keystroke of such a chunk stands for.
LeadKey(c) ==
    IF c[1] = CTRL_C THEN Key("ctrl-c")
    ELSE IF c[1] = ENTER THEN Key("enter")
    ELSE IF c[1] \in {BACKSPACE, DEL} THEN Key("backspace")
    ELSE Key(ArrowOf(c[3]))

\* The read delivered more keystrokes behind a leading control byte or
\* arrow sequence.
SeveralKeys == pc = "key" /\ Len(chunk) > Len(LeadOf(chunk))

\* C32: one state transition per read.  When a read delivers more bytes
\* behind a leading control byte or arrow sequence, the key acted on is the
\* first one and the turn of the loop is the one that key alone causes: the
\* widget state moves as for that key, the call returns only on a leading
\* enter and the process ends only on a leading interrupt.  Nothing of the
\* chunk is kept for the next read.  With two down arrows in one read
\* select moves down by one step.
C32_OneTransitionPerRead ==
    /\ [](SeveralKeys => key = LeadKey(chunk))
    /\ [][(SeveralKeys /\ pc' = "await") =>
            /\ loc' = NextLocals(widget, args, loc, LeadKey(chunk))
            /\ key' = NoKey /\ chunk' = <<>>]_vars
    /\ [][(SeveralKeys /\ pc' = "returned") => LeadKey(chunk) = Key("enter")]_vars
    /\ [][(SeveralKeys /\ pc' = "exited") => LeadKey(chunk) = Key("ctrl-c")]_vars
    /\ [][(SeveralKeys /\ widget = "select" /\ pc' = "await"
           /\ chunk = <<ESCAPE, 91, 66, ESCAPE, 91, 66>>) =>
            loc'.selected = IF loc.selected < args.len - 1 THEN loc.selected + 1
                            ELSE loc.selected]_vars

\* One read delivered enter with an interrupt byte behind it; select
\* returned and the process was not ended.
C32_Witness ==
    /\ Interactive
    /\ widget = "select"
    /\ pc = "returned"
    /\ chunk = <<ENTER, CTRL_C>>
    /\ exitCode = -1

----------------------------------------------------------------------------
(* The block command, src/src/commands/block.ts.  One action is one run of  *)
(* the tool: the process starts, the subcommand runs to its return or to    *)
(* Deno.exit, and only the block files outlive it.  The experiment exists   *)
(* (requireExperiment returns it).                                          *)

\* config.defaults.blockDuration, as the help text states it.
blockDuration == 14

\* The conditions the experiment defines (the two of the help text), and
\* the words an invocation may name as condition: one of those, one the
\* experiment does not define, the empty string, and a name every object
\* inherits.
Conditions == {"no-ai", "full-ai"}
ObjectPrototypeNames == {"constructor"}
ConditionWords == {"no-ai", "review", "", "constructor"}

\* What args._[2] may be when start runs, and when extend runs: nothing;
\* the numbers 0, 1, 2, -1 and 2.5; the strings "y" and "2y".
StartArgs == {Undefined, Number(<<50>>)} \cup {Word(w) : w \in ConditionWords}
ExtendArgs ==
    {Undefined}
    \cup {Number(u) : u \in {<<48>>, <<49>>, <<50>>, <<45, 49>>, <<50, 46, 53>>}}
    \cup {Text(u) : u \in {<<121>>, <<50, 121>>}}

\* The options of an invocation of start, as in the examples of the help
\* text: none, or --duration 7 --tags "sprint-1,focused" (duration 0: not
\* given).
StartOptions ==
    {[duration |-> 0, tags |-> <<>>],
     [duration |-> 7, tags |-> <<"sprint-1", "focused">>]}

\* JavaScript truthiness of a positional argument and of a string made of
\* it: undefined, the number 0 and the empty string are falsy.
Truthy(p) ==
    /\ p.kind # "undefined"
    /\ p.kind = "number" => p.units # <<48>>
    /\ p.kind = "string" => (p.word # "" \/ p.units # <<>>)

\* x.toString() of a positional argument that is not undefined.
toString(p) == [p EXCEPT !.kind = "string"]

\* A days value that is undefined.
NoDays == [undef |-> TRUE, nan |-> FALSE, num |-> 0]

\* validate: condition is args._[2]?.toString(), days is parseInt of that
\* text when args._[2] is truthy.  The condition words of the model start
\* with a letter, so parseInt gives NaN for them.
validate(p, duration, tags) ==
    [condition |-> IF p.kind = "undefined" THEN Undefined ELSE toString(p),
     days |-> IF Truthy(p)
              THEN IF p.word # ""
                   THEN [undef |-> FALSE, nan |-> TRUE, num |-> 0]
                   ELSE LET r == parseInt(p.units)
                        IN  [undef |-> FALSE, nan |-> r.nan, num |-> r.num]
              ELSE NoDays,
     duration |-> duration,
     tags |-> tags]

\* experiment.conditions[condition]: the definition of a condition of the
\* experiment; for a name the object inherits from Object.prototype, the
\* inherited value; undefined otherwise.
conditionsAt(c) ==
    IF c \in Conditions THEN "defined"
    ELSE IF c \in ObjectPrototypeNames THEN "inherited"
    ELSE "undefined"

\* getCurrentBlock(): the stored block whose endDate is not set (the latest
\* one), null when there is none.
getCurrentBlock(b) ==
    LET active == {id \in BlockIds : b[id] # NoBlock /\ ~b[id].endDate}
    IN  IF active = {} THEN NoBlock
        ELSE b[CHOOSE id \in active : \A other_id \in active : other_id <= id]

\* generateBlockId(): an id no stored block has.
generateBlockId(b) ==
    CHOOSE id \in BlockIds : b[id] = NoBlock /\ \A j \in 1..(id - 1) : b[j] # NoBlock

\* writeJson(getBlockPath(experiment.name, block.id), block)
writeJson(b, block) == [b EXCEPT ![block.id] = block]

\* An invocation that ends in Deno.exit(1), or returns, having written no
\* block file.
Leaves(sub, p, status) ==
    /\ ran' = [subcommand |-> sub, arg |-> p, status |-> status, wrote |-> 0]
    /\ blocks' = blocks

\* An invocation that writes the block file and returns.
Writes(sub, p, block) ==
    /\ ran' = [subcommand |-> sub, arg |-> p, status |-> 0, wrote |-> block.id]
    /\ blocks' = writeJson(blocks, block)

\* pulse block start [condition] [--duration d] [--tags t]: lines 103-173.
blockStart ==
    /\ \E p \in StartArgs, o \in StartOptions :
        LET a == validate(p, o.duration, o.tags)
            currentBlock == getCurrentBlock(blocks)
            condition == a.condition
        IN  IF currentBlock # NoBlock THEN Leaves("start", p, 1)
            ELSE IF ~Truthy(condition) THEN Leaves("start", p, 1)
            ELSE IF conditionsAt(condition.word) = "undefined"
                 THEN Leaves("start", p, 1)
            ELSE /\ \E id \in BlockIds : blocks[id] = NoBlock
                 /\ LET duration == IF a.duration # 0 THEN a.duration ELSE blockDuration
                        block == [id |-> generateBlockId(blocks),
                                  condition |-> condition.word,
                                  tags |-> a.tags,
                                  expectedDuration |-> duration,
                                  endDate |-> FALSE]
                    IN  Writes("start", p, block)
    /\ UNCHANGED widgetVars

\* pulse block end: lines 175-211.  The three summary texts asked for are
\* not kept in the model.
blockEnd ==
    /\ LET block == getCurrentBlock(blocks)
       IN  IF block = NoBlock THEN Leaves("end", Undefined, 1)
           ELSE Writes("end", Undefined, [block EXCEPT !.endDate = TRUE])
    /\ UNCHANGED widgetVars

\* The days a block was extended by so far: it started with the default
\* duration or with the one --duration gave.
Extended(block) ==
    IF block.expectedDuration >= blockDuration
    THEN block.expectedDuration - blockDuration
    ELSE block.expectedDuration - 7

\* pulse block extend [days]: lines 283-307.  The model extends a block by
\* MaxExtend days in all.
blockExtend ==
    /\ \E p \in ExtendArgs :
        LET a == validate(p, 0, <<>>)
            block == getCurrentBlock(blocks)
            days == a.days
        IN  IF block = NoBlock THEN Leaves("extend", p, 1)
            ELSE IF days.undef \/ days.num = 0 \/ days.nan \/ days.num <= 0
                 THEN Leaves("extend", p, 1)
            ELSE /\ Extended(block) + days.num <= MaxExtend
                 /\ Writes("extend", p, [block EXCEPT !.expectedDuration = @ + days.num])
    /\ UNCHANGED widgetVars

BlockNext ==
    \/ blockStart
    \/ blockEnd
    \/ blockExtend

\* The block command does not look at standard input: its runs are taken
\* from the initial state in which it is a terminal.
BlockInit == Init /\ tty

BlockSpec == BlockInit /\ [][BlockNext]_vars

\* The stored blocks that are active: their endDate is not set.
ActiveBlocks(b) == {id \in BlockIds : b[id] # NoBlock /\ ~b[id].endDate}

\* C33: block start writes a new block file only when no block is active
\* and the condition given is one of the experiment's conditions; when a
\* block is active, or the condition is missing or not one of them, it
\* exits with status 1 and has written nothing; so there is never a second
\* active block.
C33_StartOnlyKnownCondition ==
    /\ [][(ran'.subcommand = "start") =>
            IF /\ ActiveBlocks(blocks) = {}
               /\ ran'.arg.kind = "string"
               /\ ran'.arg.word \in Conditions
            THEN /\ ran'.status = 0
                 /\ ran'.wrote \in BlockIds
                 /\ blocks[ran'.wrote] = NoBlock
                 /\ blocks'[ran'.wrote].condition = ran'.arg.word
                 /\ ~blocks'[ran'.wrote].endDate
                 /\ \A id \in BlockIds \ {ran'.wrote} : blocks'[id] = blocks[id]
            ELSE /\ ran'.status = 1
                 /\ ran'.wrote = 0
                 /\ blocks' = blocks]_vars
    /\ [](Cardinality(ActiveBlocks(blocks)) <= 1)

\* The days an invocation of extend names, when its argument is a positive
\* integer: a number, or a text, that is a whole numeral above zero.
NamesPositiveInteger(p) ==
    /\ p.kind # "undefined"
    /\ p.word = ""
    /\ IsNumeral(p.units)
    /\ NumeralValue(p.units) > 0

\* C34: block extend changes the stored block only when a block is active
\* and days is a positive integer; it then adds exactly days to
\* expectedDuration and changes no other field and no other block.  With
\* no active block, or days missing, non-numeric, zero or negative, it
\* exits with status 1 and writes nothing.
C34_ExtendOnlyPositiveInteger ==
    [][(ran'.subcommand = "extend") =>
          LET block == getCurrentBlock(blocks) IN
          IF block # NoBlock /\ NamesPositiveInteger(ran'.arg)
          THEN /\ ran'.status = 0
               /\ ran'.wrote = block.id
               /\ blocks' = [blocks EXCEPT ![block.id].expectedDuration =
                                               @ + NumeralValue(ran'.arg.units)]
          ELSE /\ ran'.status = 1
               /\ ran'.wrote = 0
               /\ blocks' = blocks]_vars

====
